---- MODULE Spec2Model ----
(***************************************************************************)
(* A model of the Letta VS Code extension's tool server:                   *)
(*   - McpExpressServer (mcp/server.ts): the /mcp routes, the transports   *)
(*     and sessions maps;                                                  *)
(*   - findOpenPort (mcp/server.ts): the port allocator;                   *)
(*   - ChatAdapter (services/ChatAdapter.ts): the approval gate of the     *)
(*     chat flow;                                                          *)
(*   - toolRegistry / executeTool / executeTerminalTool: the tool handlers;*)
(*   - McpExpressServer.start, activate (extension.ts) and reconnectLetta  *)
(*     (utils/dockerHelper.ts): the server's start-up.                     *)
(* Each component has its own specification; the variables of the other   *)
(* components stay at their idle values.                                   *)
(***************************************************************************)
EXTENDS Integers, Sequences, FiniteSets, TLC

VARIABLES
  \* McpExpressServer
  transports,       \* this.transports: session id -> the transport (its connected server's number)
  sessions,         \* this.sessions: session id -> McpServer number
  nServers,         \* number of McpServer objects constructed so far
  nTransports,      \* number of StreamableHTTPServerTransport objects constructed so far
  serverTools,      \* McpServer number -> the tool names registered on it
  toolRegistry,     \* the toolRegistry array: the tool names, in order
  httpLog,          \* the requests answered so far, with their responses
  \* findOpenPort
  portStatus,       \* what binding each port does: "free", "inuse" (EADDRINUSE), "denied" (another error)
  fpPort,           \* argument port
  fpMaxRetries,     \* argument maxRetries
  fpRetries,        \* local retries
  fpTrying,         \* portToTry of the probe in flight
  fpState,          \* "probing", "resolved", "rejected"
  fpResult,         \* the resolved port, or the rejection's error
  \* ChatAdapter
  pendingCommands,          \* this.pendingCommands: command id -> the suspended tool call
  currentStreamController,  \* this.currentStreamController: the stream whose controller it is, or None
  streams,                  \* each createMessageStream call: "idle", "active", "aborted", "ended"
  calls,                    \* each handleToolUse call
  \* tool handlers
  workspaceFile,    \* the file a.txt of the workspace: Absent or its content
  inv,              \* each invocation of a toolRegistry handler
  attach,           \* LettaService: the tools cache and the attachToolsToAgent call
  term,             \* terminalTools: lastCommandOutput, the commands run and the reads made
  letta,            \* LettaService: workspaceAgentMap, the server's agents, the getAgentForWorkspace calls
  \* start / stop, activate
  mcpPortSetting,   \* the setting lettaChat.mcpPort (Unset: no value)
  discoveryFile,    \* the port in the url of ~/.letta/mcp_config.json (Unset: no file)
  notices,          \* the messages shown to the user
  commands,         \* the commands registered with VS Code
  serverObj,        \* this.server is not null
  listener,         \* the port the http server listens on (Unset: none)
  thisPort,         \* this.port
  start,            \* the frame of the start() call in progress
  actPc,            \* where activate() is
  life,             \* the operation running after activate() returned
  ovl               \* overlapping stop() / start() calls: this.server, the listeners made, the calls

mcpVars   == <<transports, sessions, nServers, nTransports, serverTools, toolRegistry, httpLog>>
portVars  == <<portStatus, fpPort, fpMaxRetries, fpRetries, fpTrying, fpState, fpResult>>
chatVars  == <<pendingCommands, currentStreamController, streams, calls>>
toolVars  == <<workspaceFile, inv, attach, term, letta>>
startVars == <<mcpPortSetting, discoveryFile, notices, commands, serverObj, listener, thisPort,
               start, actPc, life, ovl>>
vars      == <<mcpVars, portVars, chatVars, toolVars, startVars>>

None      == "none"        \* undefined / null / an absent header
Undefined == "undefined"   \* req.body when no body parser ran

-----------------------------------------------------------------------------
(* McpExpressServer                                                          *)

MaxRequests == 3                       \* requests answered in one run
MaxRegistered == 1                     \* registerTool calls in one run
SessionIds  == {"s1", "s2"}            \* the ids randomUUID can produce and a client can send
Headers     == SessionIds \cup {None}  \* the mcp-session-id header
BodyKinds   == {"initialize", "tools/call", "other"}

\* toolRegistry as the module exports it
BuiltinTools ==
  <<"run_command", "read_terminal_output", "create_file", "update_file",
    "delete_file", "read_file", "search_files", "list_files">>

\* The names registerTool is called with: a new one and one already taken.
RegisterableNames == {"my_tool", "run_command"}

Range(f) == {f[x] : x \in DOMAIN f}

\* The constructor registers the routes first and the JSON body parser after them.
\* Express runs the layers of its stack in registration order and the /mcp
\* handlers never call next(), so the parser never runs for a /mcp request.
appStack == <<"routes", "express.json">>

LayerIndex(layer) == CHOOSE i \in 1..Len(appStack) : appStack[i] = layer

\* req.body as the POST handler sees it.
ReqBody(body) ==
  IF LayerIndex("express.json") < LayerIndex("routes") THEN body ELSE Undefined

isInitializeRequest(b) == b = "initialize"

\* The three-way test of the POST handler.
PostBranch_NoInitCheck(sessionId, reqBody) ==
  IF sessionId # None /\ sessionId \in DOMAIN transports THEN "reuse"
  ELSE IF sessionId = None THEN "init"
  ELSE "reject"

PostBranch(sessionId, reqBody) ==
  IF sessionId # None /\ sessionId \in DOMAIN transports THEN "reuse"
  ELSE IF sessionId = None /\ isInitializeRequest(reqBody) THEN "init"
  ELSE "reject"

\* res.status(400).json({jsonrpc, error: {code: -32000, ...}, id: null})
BadRequestStatus == 400
BadRequestCode   == 0 - 32000

\* res.status(500).json({jsonrpc, error: {code: -32603, ...}, id: null})
InternalErrorStatus == 500
InternalErrorCode   == 0 - 32603

NoResponse == 0    \* the handler wrote no response

Response(verb, hdr, body, status, code, sid) ==
  [verb |-> verb, hdr |-> hdr, body |-> body, status |-> status, code |-> code,
   sid |-> sid,
   fault |-> FALSE,       \* an internal error was raised while handling
   unhandled |-> FALSE,   \* the handler's promise rejected (no catch)
   \* history: the registry as the request found it and as it left it
   before |-> DOMAIN transports,
   after  |-> DOMAIN transports',
   sessionsAfter |-> DOMAIN sessions',
   touched |-> <<transports', sessions'>> # <<transports, sessions>>,
   \* history: the transports and servers the request constructed
   created |-> (nTransports' - nTransports) + (nServers' - nServers),
   \* history: the names in toolRegistry when an initialization was handled
   registry |-> IF verb = "POST" /\ hdr = None /\ body = "initialize"
                  THEN Range(toolRegistry) ELSE {}]

\* The POST handler's catch: the error is answered with 500 / -32603.
Caught(verb, hdr, body) ==
  [Response(verb, hdr, body, InternalErrorStatus, InternalErrorCode, None) EXCEPT !.fault = TRUE]

\* The GET and DELETE handlers have no try/catch: an error thrown by
\* transport.handleRequest rejects the async handler's promise.
Uncaught(verb, hdr, body) ==
  [Response(verb, hdr, body, NoResponse, 0, None) EXCEPT !.fault = TRUE, !.unhandled = TRUE]

Answer(r) == httpLog' = Append(httpLog, r)

\* transport.onclose: delete this.transports[id]; delete this.sessions[id]
OnClose(id) ==
  /\ transports' = [k \in DOMAIN transports \ {id} |-> transports[k]]
  /\ sessions'   = [k \in DOMAIN sessions \ {id} |-> sessions[k]]

\* StreamableHTTPServerTransport.handleRequest for a POST on an initialized
\* transport (the body is read from the request when no parsed body is passed).
TransportPostStatus(body) ==
  CASE body = "initialize" -> 400    \* already initialized
    [] body = "tools/call" -> 200
    [] OTHER               -> 202

\* app.post('/mcp', ...); fault: server.connect or transport.handleRequest throws
PostMcp(hdr, body, fault) ==
  /\ Len(httpLog) < MaxRequests
  /\ LET branch == PostBranch(hdr, ReqBody(body)) IN
     CASE branch = "reuse" ->
            /\ UNCHANGED <<transports, sessions, nServers, nTransports, serverTools>>
            /\ IF fault
                 THEN Answer(Caught("POST", hdr, body))
                 ELSE Answer(Response("POST", hdr, body, TransportPostStatus(body), 0, hdr))
       [] branch = "init" ->
            \* a new transport and a new McpServer with the registry's tools;
            \* transport.sessionId is still undefined when
            \* "if (transport.sessionId) this.sessions[...] = server" runs, so
            \* sessions is not written; handleRequest then generates the id and
            \* onsessioninitialized stores the transport.
            \E newId \in SessionIds \ DOMAIN transports :
              /\ nServers' = nServers + 1
              /\ nTransports' = nTransports + 1
              /\ serverTools' = [n \in DOMAIN serverTools \cup {nServers + 1} |->
                                   IF n = nServers + 1 THEN Range(toolRegistry)
                                                       ELSE serverTools[n]]
              /\ UNCHANGED sessions
              /\ IF fault
                   THEN /\ UNCHANGED transports
                        /\ Answer(Caught("POST", hdr, body))
                   ELSE /\ transports' = [k \in DOMAIN transports \cup {newId} |->
                                            IF k = newId THEN nServers + 1 ELSE transports[k]]
                        /\ Answer(Response("POST", hdr, body, 200, 0, newId))
       [] OTHER ->
            \* res.status(400).json(...); return: nothing here raises an error
            /\ ~fault
            /\ UNCHANGED <<transports, sessions, nServers, nTransports, serverTools>>
            /\ Answer(Response("POST", hdr, body, BadRequestStatus, BadRequestCode, None))
  /\ UNCHANGED toolRegistry
  /\ UNCHANGED <<portVars, chatVars, toolVars, startVars>>

\* app.get('/mcp', ...): an SSE stream on a registered transport; otherwise a
\* new StreamableHTTPServerTransport is constructed and handles the GET, which
\* initializes nothing (only an initialize POST makes a transport generate an
\* id) and answers 400.  fault: transport.handleRequest throws.
GetMcp(hdr, fault) ==
  /\ Len(httpLog) < MaxRequests
  /\ UNCHANGED <<transports, sessions, nServers, serverTools, toolRegistry>>
  /\ IF hdr # None /\ hdr \in DOMAIN transports
       THEN /\ UNCHANGED nTransports
            /\ IF fault THEN Answer(Uncaught("GET", hdr, None))
                        ELSE Answer(Response("GET", hdr, None, 200, 0, hdr))
       ELSE /\ nTransports' = nTransports + 1
            /\ IF fault THEN Answer(Uncaught("GET", hdr, None))
                        ELSE Answer(Response("GET", hdr, None, 400, 0, None))
  /\ UNCHANGED <<portVars, chatVars, toolVars, startVars>>

\* The guard of the DELETE handler.
DeleteRejected(sessionId) == sessionId = None \/ sessionId \notin DOMAIN transports

\* app.delete('/mcp', ...); fault: transport.handleRequest throws
DeleteMcp(hdr, fault) ==
  /\ Len(httpLog) < MaxRequests
  /\ UNCHANGED <<nServers, nTransports, serverTools, toolRegistry>>
  /\ IF DeleteRejected(hdr)
       THEN /\ ~fault
            /\ UNCHANGED <<transports, sessions>>
            /\ Answer(Response("DELETE", hdr, None, BadRequestStatus, 0, None))
       ELSE IF fault
              THEN /\ UNCHANGED <<transports, sessions>>
                   /\ Answer(Uncaught("DELETE", hdr, None))
              ELSE \* transport.handleRequest closes the transport: onclose runs
                   /\ OnClose(hdr)
                   /\ Answer(Response("DELETE", hdr, None, 200, 0, hdr))
  /\ UNCHANGED <<portVars, chatVars, toolVars, startVars>>

\* server.tool(name, ...) throws when the name is already registered on that
\* server; registerTool catches and logs it.
ServerTool(tools, name) == tools \cup {name}

\* registerTool(name, schema, handler): toolRegistry.push(...), then
\* Object.values(this.sessions).forEach(server => server.tool(name, ...))
RegisterTool(name) ==
  /\ Len(toolRegistry) < Len(BuiltinTools) + MaxRegistered
  /\ toolRegistry' = Append(toolRegistry, name)
  /\ serverTools' = [n \in DOMAIN serverTools |->
                       IF n \in Range(sessions) THEN ServerTool(serverTools[n], name)
                                                ELSE serverTools[n]]
  /\ UNCHANGED <<transports, sessions, nServers, nTransports, httpLog>>
  /\ UNCHANGED <<portVars, chatVars, toolVars, startVars>>

McpInit ==
  /\ transports = <<>>
  /\ sessions = <<>>
  /\ nServers = 0
  /\ nTransports = 0
  /\ serverTools = <<>>
  /\ toolRegistry = BuiltinTools
  /\ httpLog = <<>>

McpNext ==
  \/ \E hdr \in Headers, body \in BodyKinds, fault \in BOOLEAN : PostMcp(hdr, body, fault)
  \/ \E hdr \in Headers, fault \in BOOLEAN : GetMcp(hdr, fault)
  \/ \E hdr \in Headers, fault \in BOOLEAN : DeleteMcp(hdr, fault)
  \/ \E name \in RegisterableNames : RegisterTool(name)

-----------------------------------------------------------------------------
(* findOpenPort                                                              *)

MCP_PORT        == 7428     \* config.ts: the default port
MaxRetriesBound == 2        \* the largest maxRetries tried
PortOffsets     == 1        \* findOpenPort is started at MCP_PORT .. MCP_PORT + PortOffsets

BindOutcomes == {"free", "inuse", "denied"}

\* The promise findOpenPort returns: not settled, resolved with a port, or
\* rejected with an error.
NoPort == 0
Unsettled == [port |-> NoPort, error |-> None]
Resolved(foundPort) == [port |-> foundPort, error |-> None]
Rejected(err) == [port |-> NoPort, error |-> err]

\* The ports a call can probe, and one beyond them.
ProbeRange(port, maxRetries) == port .. (port + maxRetries + 1)

\* if (retries < maxRetries)
RetryAllowed_OffByOne(retries, maxRetries) == retries <= maxRetries

RetryAllowed(retries, maxRetries) == retries < maxRetries

\* server.once('listening'): the probe bound the port; it is closed and returned
ProbeListening ==
  /\ fpState = "probing"
  /\ portStatus[fpTrying] = "free"
  /\ fpState' = "resolved"
  /\ fpResult' = Resolved(fpTrying)
  /\ UNCHANGED <<portStatus, fpPort, fpMaxRetries, fpRetries, fpTrying>>
  /\ UNCHANGED <<mcpVars, chatVars, toolVars, startVars>>

\* server.once('error') with err.code === 'EADDRINUSE'
ProbeInUse ==
  /\ fpState = "probing"
  /\ portStatus[fpTrying] = "inuse"
  /\ IF RetryAllowed(fpRetries, fpMaxRetries)
       THEN /\ fpRetries' = fpRetries + 1
            /\ fpTrying' = fpTrying + 1
            /\ UNCHANGED <<fpState, fpResult>>
       ELSE /\ fpState' = "rejected"
            /\ fpResult' = Rejected("Could not find an open port")
            /\ UNCHANGED <<fpRetries, fpTrying>>
  /\ UNCHANGED <<portStatus, fpPort, fpMaxRetries>>
  /\ UNCHANGED <<mcpVars, chatVars, toolVars, startVars>>

\* server.once('error') with any other code: reject(err)
ProbeOtherError ==
  /\ fpState = "probing"
  /\ portStatus[fpTrying] = "denied"
  /\ fpState' = "rejected"
  /\ fpResult' = Rejected("err")
  /\ UNCHANGED <<portStatus, fpPort, fpMaxRetries, fpRetries, fpTrying>>
  /\ UNCHANGED <<mcpVars, chatVars, toolVars, startVars>>

\* findOpenPort(port, maxRetries): currentPort = port, retries = 0, tryPort(currentPort)
PortInit ==
  /\ fpPort \in MCP_PORT .. (MCP_PORT + PortOffsets)
  /\ fpMaxRetries \in 0 .. MaxRetriesBound
  /\ portStatus \in [ProbeRange(fpPort, fpMaxRetries) -> BindOutcomes]
  /\ fpRetries = 0
  /\ fpTrying = fpPort
  /\ fpState = "probing"
  /\ fpResult = Unsettled

PortIdle ==
  /\ fpPort = MCP_PORT
  /\ fpMaxRetries = 0
  /\ portStatus = [p \in ProbeRange(MCP_PORT, 0) |-> "free"]
  /\ fpRetries = 0
  /\ fpTrying = MCP_PORT
  /\ fpState = "probing"
  /\ fpResult = Unsettled

PortNext == ProbeListening \/ ProbeInUse \/ ProbeOtherError

-----------------------------------------------------------------------------
(* ChatAdapter: the approval gate of the chat flow                           *)

MaxCalls   == 2              \* handleToolUse calls in one run
MaxStreams == 2              \* createMessageStream calls in one run
CommandIds == {"c1", "c2"}   \* the tool-call ids the agent's stream can carry

NoCall    == 0               \* no record under a command id
NoStream  == 0               \* currentStreamController = null
CallIds   == 1 .. MaxCalls
StreamIds == 1 .. MaxStreams

CancelledBeforeExecution == "User cancelled the command before execution."

\* The names handleToolUse passes to executeTool.
FileToolList ==
  {"create_file", "update_file", "delete_file", "read_file", "search_files", "list_files"}

\* The tool names the agent's stream carries beside run_command.
DirectNames == {"create_file", "no_such_tool"}

UnknownTool == "Unknown tool"

UnusedCall ==
  [state |-> "unused", id |-> None, valid |-> TRUE, stream |-> NoStream,
   proposed |-> FALSE,    \* proposeCommand was posted to the webview
   resolution |-> None, execs |-> 0, result |-> None,
   name |-> None,         \* toolCall.name
   parsed |-> FALSE,      \* the tool's schema.parse(input) was run
   body |-> FALSE]        \* the executor went on past the parse

\* handleToolUse: if (name === 'run_command') ... else if ([...].includes(name))
\* ... else throw new Error(`Unknown tool: ${name}`)
DispatchBranch(name) ==
  IF name = "run_command" THEN "terminal"
  ELSE IF name \in FileToolList THEN "file"
  ELSE "unknown"

\* schema.parse(input) throws on an input that does not match the schema.
ParseThrows_Never(valid) == FALSE

ParseThrows(valid) == ~valid

\* A call of stream s is still inside "await this.handleToolUse(...)".
InHandler(s) == \E h \in CallIds : calls[h].stream = s /\ calls[h].state \notin {"unused", "done"}

\* The id has been resolved before and has no pending record now.
AlreadyResolved(id) ==
  /\ pendingCommands[id] = NoCall
  /\ \E h \in CallIds : calls[h].id = id /\ calls[h].resolution # None

\* createMessageStream: this.currentStreamController = new AbortController()
CreateMessageStream(s) ==
  /\ streams[s] = "idle"
  /\ \A t \in StreamIds : t < s => streams[t] # "idle"
  /\ streams' = [streams EXCEPT ![s] = "active"]
  /\ currentStreamController' = s
  /\ UNCHANGED <<pendingCommands, calls>>
  /\ UNCHANGED <<mcpVars, portVars, toolVars, startVars>>

\* A tool_call chunk named run_command: handleToolUse stores the pending record
\* under commandId and posts proposeCommand, before the input is validated.
ToolCallChunk(s, h, id, valid) ==
  /\ streams[s] = "active"
  /\ ~InHandler(s)
  /\ calls[h].state = "unused"
  /\ \A g \in CallIds : g < h => calls[g].state # "unused"
  /\ DispatchBranch("run_command") = "terminal"
  /\ calls' = [calls EXCEPT ![h] = [UnusedCall EXCEPT !.state = "waiting", !.id = id,
                                                      !.valid = valid, !.stream = s,
                                                      !.proposed = TRUE,
                                                      !.name = "run_command"]]
  /\ pendingCommands' = [pendingCommands EXCEPT ![id] = h]
  /\ UNCHANGED <<currentStreamController, streams>>
  /\ UNCHANGED <<mcpVars, portVars, toolVars, startVars>>

\* A tool_call chunk with another name: handleToolUse awaits
\* executeTool(name, input, true) for a file tool (the case of the switch parses
\* the input first) and throws `Unknown tool` for any other name.
ToolCallChunkDirect(s, h, name, valid) ==
  /\ streams[s] = "active"
  /\ ~InHandler(s)
  /\ calls[h].state = "unused"
  /\ \A g \in CallIds : g < h => calls[g].state # "unused"
  /\ DispatchBranch(name) # "terminal"
  /\ DispatchBranch(name) = "unknown" => valid
  /\ calls' = [calls EXCEPT ![h] =
       IF DispatchBranch(name) = "file"
         THEN [UnusedCall EXCEPT !.state = "done", !.name = name, !.valid = valid,
                                 !.stream = s, !.parsed = TRUE,
                                 !.body = ~ParseThrows(valid),
                                 !.result = IF ParseThrows(valid) THEN "error" ELSE "executed"]
         ELSE [UnusedCall EXCEPT !.state = "done", !.name = name, !.stream = s,
                                 !.result = UnknownTool]]
  /\ UNCHANGED <<pendingCommands, currentStreamController, streams>>
  /\ UNCHANGED <<mcpVars, portVars, toolVars, startVars>>

\* this.pendingCommands[commandId].resolve(value); delete this.pendingCommands[commandId]
ResolvePending(id, how) ==
  IF pendingCommands[id] # NoCall
    THEN /\ calls' = [calls EXCEPT ![pendingCommands[id]].state = how,
                                   ![pendingCommands[id]].resolution = how]
         /\ pendingCommands' = [pendingCommands EXCEPT ![id] = NoCall]
    ELSE UNCHANGED <<calls, pendingCommands>>

\* cancelCurrentStream()
AbortCurrentStream ==
  IF currentStreamController # NoStream
    THEN /\ streams' = [streams EXCEPT ![currentStreamController] = "aborted"]
         /\ currentStreamController' = NoStream
    ELSE UNCHANGED <<streams, currentStreamController>>

\* handleCommandApproval(commandId)
HandleCommandApproval(id) ==
  /\ ResolvePending(id, "approved")
  /\ UNCHANGED <<streams, currentStreamController>>
  /\ UNCHANGED <<mcpVars, portVars, toolVars, startVars>>

\* handleCommandCancellation(commandId)
HandleCommandCancellation(id) ==
  /\ ResolvePending(id, "cancelled")
  /\ AbortCurrentStream
  /\ UNCHANGED <<mcpVars, portVars, toolVars, startVars>>

\* cancelCurrentStream(), called by the panel's cancelMessage
CancelCurrentStream ==
  /\ currentStreamController # NoStream
  /\ AbortCurrentStream
  /\ UNCHANGED <<pendingCommands, calls>>
  /\ UNCHANGED <<mcpVars, portVars, toolVars, startVars>>

\* if (userApproval.cancelled) ... else result = await executeTerminalTool(name, input)
RunsTerminalTool_Always(resolution) == TRUE

RunsTerminalTool(resolution) == resolution # "cancelled"

\* handleToolUse resumes after the approval promise resolved.
CallContinue(h) ==
  /\ calls[h].state \in {"approved", "cancelled"}
  /\ calls' = [calls EXCEPT ![h] =
       IF RunsTerminalTool(calls[h].resolution)
         THEN [@ EXCEPT !.state = "done", !.execs = @ + 1,
                        \* executeTerminalTool parses the input and throws on a bad one
                        !.parsed = TRUE,
                        !.body = ~ParseThrows(calls[h].valid),
                        !.result = IF ParseThrows(calls[h].valid) THEN "error" ELSE "executed"]
         ELSE [@ EXCEPT !.state = "done", !.result = CancelledBeforeExecution]]
  /\ UNCHANGED <<pendingCommands, currentStreamController, streams>>
  /\ UNCHANGED <<mcpVars, portVars, toolVars, startVars>>

\* The stream is exhausted or its read throws after an abort:
\* finally { this.currentStreamController = null }
StreamEnd(s) ==
  /\ streams[s] \in {"active", "aborted"}
  /\ ~InHandler(s)
  /\ streams' = [streams EXCEPT ![s] = "ended"]
  /\ currentStreamController' = NoStream
  /\ UNCHANGED <<pendingCommands, calls>>
  /\ UNCHANGED <<mcpVars, portVars, toolVars, startVars>>

ChatInit ==
  /\ pendingCommands = [id \in CommandIds |-> NoCall]
  /\ currentStreamController = NoStream
  /\ streams = [s \in StreamIds |-> "idle"]
  /\ calls = [h \in CallIds |-> UnusedCall]

ChatNext ==
  \/ \E s \in StreamIds : CreateMessageStream(s)
  \/ \E s \in StreamIds, h \in CallIds, id \in CommandIds, valid \in BOOLEAN :
       ToolCallChunk(s, h, id, valid)
  \/ \E id \in CommandIds : HandleCommandApproval(id)
  \/ \E id \in CommandIds : HandleCommandCancellation(id)
  \/ CancelCurrentStream
  \/ \E h \in CallIds : CallContinue(h)
  \/ \E s \in StreamIds : StreamEnd(s)

\* One agent stream whose tool_call chunks carry any of the names.
DispatchNext ==
  \/ CreateMessageStream(1)
  \/ \E h \in CallIds, id \in CommandIds, valid \in BOOLEAN : ToolCallChunk(1, h, id, valid)
  \/ \E h \in CallIds, name \in DirectNames, valid \in BOOLEAN :
       ToolCallChunkDirect(1, h, name, valid)
  \/ \E id \in CommandIds : HandleCommandApproval(id)
  \/ \E id \in CommandIds : HandleCommandCancellation(id)
  \/ \E h \in CallIds : CallContinue(h)
  \/ StreamEnd(1)

-----------------------------------------------------------------------------
(* toolRegistry handlers, executeTool and executeTerminalTool                *)
(* (a workspace folder is open; the file tools act on the file a.txt)        *)

MaxInvocations == 2     \* handler invocations in one run
InvIds    == 1 .. MaxInvocations
FilePath  == "a.txt"
Absent    == "absent"
Commands  == {"ls", "rm -rf build"}
FileTools == {"create_file", "update_file", "delete_file"}
ToolNames == FileTools \cup {"run_command"}

\* Paths are sequences of segments; a first segment "/" makes the path absolute.
rootPath == <<"/", "w">>     \* workspaceFolders[0].uri.fsPath
Paths ==
  { <<"a.txt">>,                   \* the file the tools act on
    <<"/", "etc", "x">>,
    <<"sub", "..", "..", "x">>,
    <<"..", "w", "a.txt">> }       \* leaves the root and comes back to a.txt

\* path.isAbsolute(p)
IsAbsolute(p) == p # <<>> /\ p[1] = "/"

\* path.normalize: a ".." segment removes the segment before it; "/.." is "/".
RECURSIVE NormalizeFrom(_, _)
NormalizeFrom(done, rest) ==
  IF rest = <<>> THEN done
  ELSE IF Head(rest) # ".." THEN NormalizeFrom(Append(done, Head(rest)), Tail(rest))
  ELSE IF done = <<>> \/ done[Len(done)] = ".." THEN NormalizeFrom(Append(done, ".."), Tail(rest))
  ELSE IF done[Len(done)] = "/" THEN NormalizeFrom(done, Tail(rest))
  ELSE NormalizeFrom(SubSeq(done, 1, Len(done) - 1), Tail(rest))

\* path.join(a, b)
Join(a, b) == NormalizeFrom(<<>>, a \o b)

\* Length of the longest common prefix of two sequences.
RECURSIVE CommonPrefix(_, _)
CommonPrefix(a, b) ==
  IF a = <<>> \/ b = <<>> \/ Head(a) # Head(b) THEN 0
  ELSE 1 + CommonPrefix(Tail(a), Tail(b))

\* path.relative(from, to) for two normalized absolute paths
Relative(from, to) ==
  LET k == CommonPrefix(from, to) IN
  [i \in 1 .. (Len(from) - k) |-> ".."] \o SubSeq(to, k + 1, Len(to))

\* relativePath.startsWith('..') || path.isAbsolute(relativePath)
OutsideWorkspace_Never(rel) == FALSE

OutsideWorkspace(rel) ==
  rel # <<>> /\ (rel[1] \in {"..", "..cache"} \/ IsAbsolute(rel))

\* The two path checks of create_file, update_file and delete_file.
PathRejected(p) ==
  IsAbsolute(p) \/ OutsideWorkspace(Relative(rootPath, Join(rootPath, p)))
Choices   == {"Yes", "Yes, run it", "Cancel", None}   \* None: the dialog was dismissed

CommandCancelled == "Command execution cancelled by user."
OperationCancelled == "Operation cancelled"

UnusedInv ==
  [pc |-> "unused", tool |-> None, valid |-> TRUE, path |-> <<"a.txt">>,
   command |-> None, statFound |-> None, dialog |-> None, choice |-> None,
   result |-> None, isError |-> FALSE, mutated |-> FALSE,
   terminalToolCalls |-> 0, spawned |-> 0,
   replaced |-> FALSE,   \* history: the file existed when this call wrote it
   threw |-> FALSE,      \* tool.handler(args) rejected
   escaped |-> FALSE]    \* the rejection left the session wrapper

\* The buttons of the two kinds of dialog.
Buttons(tool) == IF tool = "run_command" THEN {"Yes, run it", "Cancel"} ELSE {"Yes", "Cancel"}

\* showCommandApprovalDialog: return response === 'Yes, run it'
showCommandApprovalDialog_NotCancel(response) == response # "Cancel"

showCommandApprovalDialog(response) == response = "Yes, run it"

\* executeTool: if (choice !== 'Yes') return `Operation cancelled: ...`
Confirmed_NotCancel(choice) == choice # "Cancel"

Confirmed(choice) == choice = "Yes"

\* The callback given to server.tool: try { result = await tool.handler(args);
\* return {content: [text]} } catch (error) { return {content: [error.message],
\* isError: true} }
ToolWrapper_NoCatch(result, threw) ==
  [text |-> IF threw THEN None ELSE result, isError |-> FALSE, escaped |-> threw]

ToolWrapper(result, threw) ==
  [text |-> result, isError |-> threw, escaped |-> FALSE]

\* The handler finished with a result or threw an error with that message; the
\* session wrapper makes the envelope.
Finish(r, result, threw) ==
  LET e == ToolWrapper(result, threw) IN
  [r EXCEPT !.pc = "done", !.threw = threw, !.result = e.text,
            !.isError = e.isError, !.escaped = e.escaped]

\* await vscode.window.showWarningMessage(..., {modal: true}, ...): the handler
\* that asked is suspended on the promise; the extension host goes on running
\* the other handlers, so a dialog that is open holds no other invocation up.
Blocked_BySyncDialog(h) == \E g \in InvIds \ {h} : inv[g].pc = "dialog"

Blocked(h) == FALSE

\* tool.handler(args), up to its first await.
\*   run_command: showCommandApprovalDialog(params.command) comes first;
\*   file tools: executeTool parses the input, checks the path, then either
\*   stats the file (create_file, update_file) or asks (delete_file).
Invoke(h, tool, valid, p, command) ==
  /\ inv[h].pc = "unused"
  /\ ~Blocked(h)
  /\ \A g \in InvIds : g < h => inv[g].pc # "unused"
  /\ (tool = "run_command" \/ ~valid) => p = <<"a.txt">>
  /\ tool = "run_command" => command # None
  /\ tool \in FileTools => command = None
  /\ LET r == [UnusedInv EXCEPT !.tool = tool, !.valid = valid, !.path = p,
                                !.command = command] IN
     inv' = [inv EXCEPT ![h] =
       CASE tool = "run_command" ->
              [r EXCEPT !.pc = "dialog", !.dialog = IF valid THEN command ELSE Undefined]
         [] ~valid -> Finish(r, "validation error", TRUE)
         [] PathRejected(p) -> Finish(r, "path error", TRUE)
         [] tool = "delete_file" -> [r EXCEPT !.pc = "dialog", !.dialog = FilePath]
         [] OTHER -> [r EXCEPT !.pc = "stat"]]
  /\ UNCHANGED workspaceFile
  /\ UNCHANGED <<mcpVars, portVars, chatVars, startVars>>
  /\ UNCHANGED <<attach, term, letta>>

\* await vscode.workspace.fs.stat(uri) in create_file and update_file
Stat(h) ==
  /\ inv[h].pc = "stat"
  /\ ~Blocked(h)
  /\ LET found == workspaceFile # Absent
         r == [inv[h] EXCEPT !.statFound = IF found THEN "found" ELSE "missing"] IN
     inv' = [inv EXCEPT ![h] =
       CASE found -> [r EXCEPT !.pc = "dialog", !.dialog = FilePath]
         [] r.tool = "create_file" -> [r EXCEPT !.pc = "write"]
         [] OTHER -> Finish(r, "does not exist", TRUE)]
  /\ UNCHANGED workspaceFile
  /\ UNCHANGED <<mcpVars, portVars, chatVars, startVars>>
  /\ UNCHANGED <<attach, term, letta>>

\* The user answers (or dismisses) the modal dialog.
AnswerDialog(h, choice) ==
  /\ inv[h].pc = "dialog"
  /\ choice \in Buttons(inv[h].tool) \cup {None}
  /\ LET r == [inv[h] EXCEPT !.choice = choice] IN
     inv' = [inv EXCEPT ![h] =
       IF r.tool = "run_command"
         THEN IF showCommandApprovalDialog(choice)
                THEN [r EXCEPT !.pc = "exec"]
                ELSE Finish(r, CommandCancelled, FALSE)
         ELSE IF Confirmed(choice)
                THEN [r EXCEPT !.pc = "write"]
                ELSE Finish(r, OperationCancelled, FALSE)]
  /\ UNCHANGED workspaceFile
  /\ UNCHANGED <<mcpVars, portVars, chatVars, startVars>>
  /\ UNCHANGED <<attach, term, letta>>

\* vscode.workspace.fs.writeFile / vscode.workspace.fs.delete
Mutate(h) ==
  /\ inv[h].pc = "write"
  /\ ~Blocked(h)
  /\ IF inv[h].tool = "delete_file"
       THEN IF workspaceFile # Absent
              THEN /\ workspaceFile' = Absent
                   /\ inv' = [inv EXCEPT ![h] = Finish([@ EXCEPT !.mutated = TRUE], "deleted", FALSE)]
              ELSE /\ UNCHANGED workspaceFile     \* fs.delete throws: no such file
                   /\ inv' = [inv EXCEPT ![h] = Finish(@, "delete failed", TRUE)]
       ELSE /\ workspaceFile' = "new"
            /\ inv' = [inv EXCEPT ![h] =
                 Finish([@ EXCEPT !.mutated = TRUE, !.replaced = workspaceFile # Absent],
                        "written", FALSE)]
  /\ UNCHANGED <<mcpVars, portVars, chatVars, startVars>>
  /\ UNCHANGED <<attach, term, letta>>

\* executeTerminalTool("run_command", params): parse, then executeTerminalCommand
Exec(h) ==
  /\ inv[h].pc = "exec"
  /\ ~Blocked(h)
  /\ inv' = [inv EXCEPT ![h] =
       IF inv[h].valid
         THEN Finish([@ EXCEPT !.terminalToolCalls = @ + 1, !.spawned = @ + 1], "executed", FALSE)
         ELSE Finish([@ EXCEPT !.terminalToolCalls = @ + 1], "validation error", TRUE)]
  /\ UNCHANGED workspaceFile
  /\ UNCHANGED <<mcpVars, portVars, chatVars, startVars>>
  /\ UNCHANGED <<attach, term, letta>>

\* The tools attachToolsToAgent processes (allTools), in order.
AttachTools == <<"create_file", "read_file", "run_command">>
AttachNames == {AttachTools[i] : i \in 1 .. Len(AttachTools)}

\* const problematicTools = [...]
problematicTools ==
  {"create_file", "update_file", "delete_file", "read_file", "search_files", "list_files",
   "run_command", "read_terminal_output"}

\* Tool ids: the id a name had in the restored cache, and the id of the tool
\* created in this call.
OldId == "old"
NewId == "new"

IdleAttach ==
  [pc |-> "idle", i |-> 1,
   toolsCache |-> [n \in AttachNames |-> None],   \* this.toolsCache
   cacheAtCall |-> [n \in AttachNames |-> None],  \* history: the cache when the call began
   deleteCalls |-> {},                            \* names whose tool client.tools.delete was called on
   created |-> {},                                \* names client.tools.create was called for
   attached |-> [n \in AttachNames |-> None],     \* the id attached to the agent under each name
   saved |-> FALSE]                               \* saveToolsCache() ran in this call

\* attachToolsToAgent(agentId) for a new agent: client.agents.tools.list
\* returns none of these tools
AttachToolsToAgent ==
  /\ attach.pc = "idle"
  /\ attach' = [attach EXCEPT !.pc = "delete", !.i = 1, !.cacheAtCall = attach.toolsCache]
  /\ UNCHANGED <<workspaceFile, inv, term, letta>>
  /\ UNCHANGED <<mcpVars, portVars, chatVars, startVars>>

\* for (const toolName of problematicTools): if the cache has an id,
\* deleteAndRemoveFromCache(toolName, toolId); a failed delete is swallowed
\* and keeps the cache entry
DeleteProblematic(ok) ==
  /\ attach.pc = "delete"
  /\ LET n == AttachTools[attach.i]
         last == attach.i = Len(AttachTools)
         a == [attach EXCEPT !.pc = IF last THEN "create" ELSE "delete",
                             !.i = IF last THEN 1 ELSE attach.i + 1] IN
     IF n \in problematicTools /\ attach.toolsCache[n] # None
       THEN attach' = [a EXCEPT !.deleteCalls = @ \cup {n},
                                !.toolsCache[n] = IF ok THEN None ELSE @]
       ELSE /\ ok
            /\ attach' = a
  /\ UNCHANGED <<workspaceFile, inv, term, letta>>
  /\ UNCHANGED <<mcpVars, portVars, chatVars, startVars>>

\* for (const tool of allTools): a problematic tool is created anew
\* (forceCreateAndAttachTool: create, cache the new id, attach it; a failure
\* is rethrown); another tool is attached under its cached id or created
ProcessTool(ok) ==
  /\ attach.pc = "create"
  /\ LET n == AttachTools[attach.i]
         last == attach.i = Len(AttachTools)
         a == [attach EXCEPT !.pc = IF last THEN "save" ELSE "create",
                             !.i = IF last THEN 1 ELSE attach.i + 1] IN
     IF ~ok
       THEN attach' = [attach EXCEPT !.pc = "failed",
                         !.created = IF n \in problematicTools \/ attach.toolsCache[n] = None
                                       THEN @ \cup {n} ELSE @]
       ELSE IF n \in problematicTools \/ attach.toolsCache[n] = None
         THEN attach' = [a EXCEPT !.created = @ \cup {n}, !.toolsCache[n] = NewId,
                                  !.attached[n] = NewId]
         ELSE attach' = [a EXCEPT !.attached[n] = attach.toolsCache[n]]
  /\ UNCHANGED <<workspaceFile, inv, term, letta>>
  /\ UNCHANGED <<mcpVars, portVars, chatVars, startVars>>

\* await this.saveToolsCache()
SaveToolsCache ==
  /\ attach.pc = "save"
  /\ attach' = [attach EXCEPT !.pc = "done", !.saved = TRUE]
  /\ UNCHANGED <<workspaceFile, inv, term, letta>>
  /\ UNCHANGED <<mcpVars, portVars, chatVars, startVars>>

-----------------------------------------------------------------------------
(* LettaService.getAgentForWorkspace (one workspace)                         *)

MaxAgentCalls == 2     \* getAgentForWorkspace calls in one run
AgentCallIds  == 1 .. MaxAgentCalls
NoAgent       == 0     \* workspaceAgentMap has no entry for the workspace

UnusedAgentCall ==
  [pc |-> "unused",
   existing |-> NoAgent,   \* const existing = this.workspaceAgentMap.get(workspaceKey)
   agent |-> NoAgent,      \* the agent client.agents.create returned to this call
   result |-> NoAgent,     \* agentId of the value returned
   threw |-> FALSE]

IdleLetta ==
  [workspaceAgentMap |-> NoAgent,    \* the agent mapped to the workspace
   serverAgents |-> {},              \* the workspace's agents on the Letta server
   nAgents |-> 0,                    \* agents created on the server so far
   calls |-> [c \in AgentCallIds |-> UnusedAgentCall]]

\* getAgentForWorkspace(workspaceUri) up to its first await: read the map; a
\* mapped agent is verified with client.agents.retrieve, otherwise the blocks
\* and the agent are created.
GetAgentForWorkspace(c) ==
  /\ letta.calls[c].pc = "unused"
  /\ \A b \in AgentCallIds : b < c => letta.calls[b].pc # "unused"
  /\ letta' = [letta EXCEPT !.calls[c] =
       [@ EXCEPT !.existing = letta.workspaceAgentMap,
                 !.pc = IF letta.workspaceAgentMap # NoAgent THEN "retrieve" ELSE "create"]]
  /\ UNCHANGED <<workspaceFile, inv, attach, term>>
  /\ UNCHANGED <<mcpVars, portVars, chatVars, startVars>>

\* await client.agents.retrieve(existing.agentId): return existing; on a 404
\* workspaceAgentMap.delete(workspaceKey) and go on to create; another error
\* is rethrown (failed: the request failed for another reason than a 404)
RetrieveAgent(c, failed) ==
  /\ letta.calls[c].pc = "retrieve"
  /\ letta' =
       IF failed
         THEN [letta EXCEPT !.calls[c] = [@ EXCEPT !.pc = "done", !.threw = TRUE]]
       ELSE IF letta.calls[c].existing \in letta.serverAgents
         THEN [letta EXCEPT !.calls[c] = [@ EXCEPT !.pc = "done", !.result = letta.calls[c].existing]]
         ELSE [letta EXCEPT !.calls[c] = [@ EXCEPT !.pc = "create"],
                            !.workspaceAgentMap = NoAgent]
  /\ UNCHANGED <<workspaceFile, inv, attach, term>>
  /\ UNCHANGED <<mcpVars, portVars, chatVars, startVars>>

\* the blocks are created, then agent = await client.agents.create({...});
\* ok: the requests succeed
CreateAgent(c, ok) ==
  /\ letta.calls[c].pc = "create"
  /\ letta' =
       IF ok
         THEN [letta EXCEPT !.nAgents = @ + 1,
                            !.serverAgents = @ \cup {letta.nAgents + 1},
                            !.calls[c] = [@ EXCEPT !.pc = "attach", !.agent = letta.nAgents + 1]]
         ELSE [letta EXCEPT !.calls[c] = [@ EXCEPT !.pc = "done", !.threw = TRUE]]
  /\ UNCHANGED <<workspaceFile, inv, attach, term>>
  /\ UNCHANGED <<mcpVars, portVars, chatVars, startVars>>

\* await this.attachToolsToAgent(agent.id); this.workspaceAgentMap.set(
\* workspaceKey, agentData); await this.saveWorkspaceAgentMap(); return agentData
MapAgent(c, ok) ==
  /\ letta.calls[c].pc = "attach"
  /\ letta' =
       IF ok
         THEN [letta EXCEPT !.workspaceAgentMap = letta.calls[c].agent,
                            !.calls[c] = [@ EXCEPT !.pc = "done", !.result = letta.calls[c].agent]]
         ELSE [letta EXCEPT !.calls[c] = [@ EXCEPT !.pc = "done", !.threw = TRUE]]
  /\ UNCHANGED <<workspaceFile, inv, attach, term>>
  /\ UNCHANGED <<mcpVars, portVars, chatVars, startVars>>

-----------------------------------------------------------------------------
(* terminalTools: executeTerminalCommand and readTerminalOutput              *)

MaxCommands == 2     \* run_command calls in one run
MaxReads    == 2     \* read_terminal_output calls in one run
CmdIds      == 1 .. MaxCommands

\* The strings the terminal tools return.
ExecutedInTerminal == "Command executed in terminal"
CommandExecuted    == "Command executed"
NoOutputAvailable  == "No terminal output available"

\* A captured output: the command it belongs to and its text.
Output(k, text) == [of |-> k, text |-> text]

\* let lastCommandOutput: string = ''
EmptyOutput == Output(0, "")

UnusedCmd ==
  [pc |-> "unused", capture |-> FALSE,
   code |-> 0,           \* the exit code child_process.exec reported
   result |-> None,      \* what executeTerminalTool returned
   threw |-> FALSE]      \* executeTerminalTool rejected

IdleTerm ==
  [lastCommandOutput |-> EmptyOutput,
   cmds |-> [k \in CmdIds |-> UnusedCmd],
   reads |-> <<>>]       \* history: what each read_terminal_output returned

\* The exec callback: if (error && error.code !== 0) resolve(`Error (exit code
\* ...): ...`) else resolve(stdout || ...)
ExecResult(k, code) ==
  IF code # 0 THEN Output(k, "Error (exit code)") ELSE Output(k, "stdout")

\* What executeTerminalCommand does once exec has called back: the promise was
\* resolved in both cases, so the command is reported as executed.
Reported(c, code) == [c EXCEPT !.pc = "done", !.code = code, !.result = CommandExecuted]

\* The capturing commands whose exec has called back.
CapturedDone == {k \in CmdIds : term.cmds[k].pc = "done" /\ term.cmds[k].capture}

\* The capturing commands whose exec is in flight.
Capturing == {k \in CmdIds : term.cmds[k].pc = "running"}

Latest(S) == IF S = {} THEN 0 ELSE CHOOSE k \in S : \A j \in S : j <= k

\* executeTerminalTool("run_command", params) -> executeTerminalCommand, up to
\* its first await: without captureOutput the command is sent to the terminal
\* and lastCommandOutput is cleared; with it child_process.exec is started.
RunCommand(k, capture) ==
  /\ term.cmds[k].pc = "unused"
  /\ \A j \in CmdIds : j < k => term.cmds[j].pc # "unused"
  /\ IF capture
       THEN term' = [term EXCEPT !.cmds[k] = [@ EXCEPT !.pc = "running", !.capture = TRUE]]
       ELSE term' = [term EXCEPT !.cmds[k] = [@ EXCEPT !.pc = "done", !.result = ExecutedInTerminal],
                                 !.lastCommandOutput = EmptyOutput]
  /\ UNCHANGED <<workspaceFile, inv, attach, letta>>
  /\ UNCHANGED <<mcpVars, portVars, chatVars, startVars>>

\* child_process.exec calls back with the exit code: lastCommandOutput =
\* result, the command is shown in the terminal, `Command executed: ...`
ExecCallback(k, code) ==
  /\ term.cmds[k].pc = "running"
  /\ term' = [term EXCEPT !.cmds[k] = Reported(@, code),
                          !.lastCommandOutput = ExecResult(k, code)]
  /\ UNCHANGED <<workspaceFile, inv, attach, letta>>
  /\ UNCHANGED <<mcpVars, portVars, chatVars, startVars>>

\* readTerminalOutput(): if (!lastCommandOutput) return "No terminal output
\* available..."; return lastCommandOutput
ReadTerminalOutput ==
  /\ Len(term.reads) < MaxReads
  /\ term' = [term EXCEPT !.reads = Append(@,
       [returned |-> IF term.lastCommandOutput.text = ""
                       THEN Output(0, NoOutputAvailable)
                       ELSE term.lastCommandOutput,
        \* history: the last capturing command that had finished, and the
        \* capturing commands in flight, when the read was made
        latest |-> Latest(CapturedDone),
        inFlight |-> Capturing])]
  /\ UNCHANGED <<workspaceFile, inv, attach, letta>>
  /\ UNCHANGED <<mcpVars, portVars, chatVars, startVars>>

ExitCodes == {0, 1}

TermInit ==
  /\ workspaceFile = Absent
  /\ inv = [h \in InvIds |-> UnusedInv]
  /\ attach = IdleAttach
  /\ term = IdleTerm
  /\ letta = IdleLetta

TermNext ==
  \/ \E k \in CmdIds, capture \in BOOLEAN : RunCommand(k, capture)
  \/ \E k \in CmdIds, code \in ExitCodes : ExecCallback(k, code)
  \/ ReadTerminalOutput

\* The map as initialize() restored it: no agent, an agent that exists on the
\* server, or an agent that was deleted there.
LettaInit ==
  /\ workspaceFile = Absent
  /\ inv = [h \in InvIds |-> UnusedInv]
  /\ attach = IdleAttach
  /\ term = IdleTerm
  /\ \E mapped \in BOOLEAN, onServer \in BOOLEAN :
       /\ onServer => mapped
       /\ letta = [IdleLetta EXCEPT !.workspaceAgentMap = IF mapped THEN 1 ELSE NoAgent,
                                    !.serverAgents = IF onServer THEN {1} ELSE {},
                                    !.nAgents = IF mapped THEN 1 ELSE 0]

LettaNext ==
  \/ \E c \in AgentCallIds : GetAgentForWorkspace(c)
  \/ \E c \in AgentCallIds, failed \in BOOLEAN : RetrieveAgent(c, failed)
  \/ \E c \in AgentCallIds, ok \in BOOLEAN : CreateAgent(c, ok)
  \/ \E c \in AgentCallIds, ok \in BOOLEAN : MapAgent(c, ok)

\* The cache as initialize() restored it: any of the tools may have an id.
AttachInit ==
  /\ workspaceFile = Absent
  /\ inv = [h \in InvIds |-> UnusedInv]
  /\ \E c \in [AttachNames -> {None, OldId}] : attach = [IdleAttach EXCEPT !.toolsCache = c]
  /\ term = IdleTerm
  /\ letta = IdleLetta

AttachNext ==
  \/ AttachToolsToAgent
  \/ \E ok \in BOOLEAN : DeleteProblematic(ok)
  \/ \E ok \in BOOLEAN : ProcessTool(ok)
  \/ SaveToolsCache

ToolsInit ==
  /\ workspaceFile \in {Absent, "old"}
  /\ inv = [h \in InvIds |-> UnusedInv]
  /\ attach = IdleAttach
  /\ term = IdleTerm
  /\ letta = IdleLetta

ToolsIdle ==
  /\ workspaceFile = Absent
  /\ inv = [h \in InvIds |-> UnusedInv]
  /\ attach = IdleAttach
  /\ term = IdleTerm
  /\ letta = IdleLetta

ToolsNext ==
  \/ \E h \in InvIds, tool \in ToolNames, valid \in BOOLEAN, p \in Paths,
        command \in Commands \cup {None} : Invoke(h, tool, valid, p, command)
  \/ \E h \in InvIds : Stat(h)
  \/ \E h \in InvIds, choice \in Choices : AnswerDialog(h, choice)
  \/ \E h \in InvIds : Mutate(h)
  \/ \E h \in InvIds : Exec(h)

-----------------------------------------------------------------------------
(* McpExpressServer.start / stop, activate and reconnectLetta                *)

MaxOps == 2                 \* operations run after activate() returned
PrimaryRetries   == 10      \* findOpenPort(configuredPort, 10)
AlternateOffset  == 1000    \* alternativePort = configuredPort + 1000
AlternateRetries == 5       \* findOpenPort(alternativePort, 5)
Unset            == 0       \* lettaChat.mcpPort has no value; this.server = null; no file

\* The values lettaChat.mcpPort has when the extension starts.
InitialSettings == {Unset, MCP_PORT + 1}

\* config.get<number>('mcpPort') || DEFAULT_PORT
ConfiguredPort(setting) == IF setting = Unset THEN MCP_PORT ELSE setting

\* Every port a start() can probe from one of the initial settings.
StartPorts ==
  UNION {(c .. (c + PrimaryRetries + 1)) \cup
         ((c + AlternateOffset) .. (c + AlternateOffset + AlternateRetries + 1)) :
           c \in {ConfiguredPort(s) : s \in InitialSettings}}

\* The first k ports from base are in use, the next one binds as kind says,
\* the others are free.
Occupied(base, k, kind, p) ==
  IF p < base + k THEN "inuse" ELSE IF p = base + k THEN kind ELSE "free"

\* The messages shown to the user.
Notice(level, msg, p) == [level |-> level, msg |-> msg, port |-> p]
RangeInUse(c)      == Notice("error", "Cannot start MCP server: all ports in range are in use", c)
TryingAlternative(p) == Notice("info", "Trying alternative port", p)
PortSetInSettings(p) == Notice("info", "MCP port set in settings", p)
StartedOnAlternative(p) == Notice("info", "MCP server started on alternative port", p)
ActivationFailed   == Notice("error", "Failed to initialize Letta AI extension", Unset)
ReconnectFailed    == Notice("error", "Failed to reconnect to Letta", Unset)
NotResponding      == Notice("error", "Letta server is not responding", Unset)
Reconnected        == Notice("info", "Successfully reconnected to Letta server", Unset)

\* The commands activate() registers.
ShowErrorDetails == "letta-ai.showErrorDetails"
ReconnectCommand == "letta-ai.reconnect"
FeatureCommands  ==
  {"letta-ai.openChat", "letta-ai.indexWorkspace", "letta-ai.clearProjectMemory",
   "letta-ai.clearPersonaMemory"}

\* No operation has run since activate() returned.
IdleLife ==
  [op |-> "none", back |-> None, n |-> 0,
   \* history: a stop() call closed a listening server / found no server
   closed |-> FALSE, noop |-> FALSE]

IdleStart ==
  [pc |-> "idle", configuredPort |-> Unset, finalPort |-> Unset, error |-> None,
   selection |-> None,      \* the button chosen in the range-exhausted dialog
   asked |-> FALSE,         \* the range-exhausted dialog was shown
   \* history: this.port and the discovery file when start() was called
   portAtCall |-> Unset, fileAtCall |-> Unset]

\* findOpenPort(p, n) is called.
CallFindOpenPort(p, n) ==
  /\ fpPort' = p
  /\ fpMaxRetries' = n
  /\ fpRetries' = 0
  /\ fpTrying' = p
  /\ fpState' = "probing"
  /\ fpResult' = Unsettled
  /\ UNCHANGED portStatus

\* start(): read the setting and call findOpenPort(configuredPort, 10)
StartBegin ==
  /\ start' = [IdleStart EXCEPT !.pc = "primary",
                                !.configuredPort = ConfiguredPort(mcpPortSetting),
                                !.portAtCall = thisPort, !.fileAtCall = discoveryFile]
  /\ CallFindOpenPort(ConfiguredPort(mcpPortSetting), PrimaryRetries)

\* if (selection === 'Change MCP Port')
ChangesPort_AnyButton(selection) == selection # None

ChangesPort(selection) == selection = "Change MCP Port"

\* if (finalPort !== configuredPort) updateMcpPortSetting(finalPort)
SettingAfterListen_Never(finalPort, configured, setting) == setting

SettingAfterListen(finalPort, configured, setting) ==
  IF finalPort # configured THEN finalPort ELSE setting

\* listen callback: writeMcpConfig(finalPort)
ConfigAfterListen_Keep(finalPort, file) == file

ConfigAfterListen(finalPort, file) == finalPort

\* activate(): register letta-ai.showErrorDetails and the shutdown handler,
\* then await mcpServer.start()
Activate ==
  /\ actPc = "idle"
  /\ actPc' = "start"
  /\ commands' = commands \cup {ShowErrorDetails}
  /\ StartBegin
  /\ UNCHANGED <<mcpPortSetting, discoveryFile, notices, serverObj, listener, thisPort>>
  /\ UNCHANGED <<mcpVars, chatVars, toolVars>>
  /\ UNCHANGED <<life, ovl>>

\* finalPort = await findOpenPort(configuredPort, 10) returned
StartPrimaryResolved ==
  /\ start.pc = "primary"
  /\ fpState = "resolved"
  /\ start' = [start EXCEPT !.pc = "listen", !.finalPort = fpResult.port]
  /\ UNCHANGED <<mcpPortSetting, discoveryFile, notices, serverObj, listener, thisPort,
                 actPc, commands>>
  /\ UNCHANGED <<mcpVars, portVars, chatVars, toolVars>>
  /\ UNCHANGED <<life, ovl>>

\* catch (portError): the error dialog and its three outcomes
StartPrimaryRejected(selection) ==
  /\ start.pc = "primary"
  /\ fpState = "rejected"
  /\ IF ChangesPort(selection)
       THEN /\ start' = [start EXCEPT !.pc = "alternate", !.selection = selection,
                                      !.asked = TRUE]
            /\ notices' = notices \cup {RangeInUse(start.configuredPort),
                                        TryingAlternative(start.configuredPort + AlternateOffset)}
            /\ CallFindOpenPort(start.configuredPort + AlternateOffset, AlternateRetries)
       ELSE \* 'Details' (after letta-ai.showErrorDetails ran) or dismissed:
            \* throw portError
            /\ start' = [start EXCEPT !.pc = "rejected", !.selection = selection,
                                      !.asked = TRUE, !.error = fpResult.error]
            /\ notices' = notices \cup {RangeInUse(start.configuredPort)}
            /\ UNCHANGED portVars
  /\ UNCHANGED <<mcpPortSetting, discoveryFile, serverObj, listener, thisPort, actPc, commands>>
  /\ UNCHANGED <<mcpVars, chatVars, toolVars>>
  /\ UNCHANGED <<life, ovl>>

\* finalPort = await findOpenPort(alternativePort, 5); await updateMcpPortSetting(finalPort)
StartAlternateDone ==
  /\ start.pc = "alternate"
  /\ fpState # "probing"
  /\ IF fpState = "resolved"
       THEN /\ start' = [start EXCEPT !.pc = "listen", !.finalPort = fpResult.port]
            /\ mcpPortSetting' = fpResult.port
            /\ notices' = notices \cup {PortSetInSettings(fpResult.port)}
       ELSE /\ start' = [start EXCEPT !.pc = "rejected", !.error = fpResult.error]
            /\ UNCHANGED <<mcpPortSetting, notices>>
  /\ UNCHANGED <<discoveryFile, serverObj, listener, thisPort, actPc, commands>>
  /\ UNCHANGED <<mcpVars, portVars, chatVars, toolVars>>
  /\ UNCHANGED <<life, ovl>>

\* this.server = this.app.listen(finalPort, '0.0.0.0', callback); the bind on
\* all interfaces succeeds (callback) or fails (the 'error' handler rejects)
StartListen(bound) ==
  /\ start.pc = "listen"
  /\ serverObj' = TRUE
  /\ IF bound
       THEN /\ listener' = start.finalPort
            /\ thisPort' = start.finalPort
            /\ mcpPortSetting' = SettingAfterListen(start.finalPort, start.configuredPort,
                                                    mcpPortSetting)
            /\ discoveryFile' = ConfigAfterListen(start.finalPort, discoveryFile)
            /\ notices' = IF start.finalPort # MCP_PORT
                            THEN notices \cup {StartedOnAlternative(start.finalPort)}
                            ELSE notices
            /\ start' = [start EXCEPT !.pc = "resolved"]
       ELSE /\ start' = [start EXCEPT !.pc = "rejected", !.error = "bind error"]
            /\ UNCHANGED <<listener, thisPort, mcpPortSetting, discoveryFile, notices>>
  /\ UNCHANGED <<actPc, commands>>
  /\ UNCHANGED <<mcpVars, portVars, chatVars, toolVars>>
  /\ UNCHANGED <<life, ovl>>

\* activate() after start() resolved: writeMcpConfig() with its default port,
\* then reconnectLetta() up to its health check: await mcpServer.stop()
ActivateWriteConfig ==
  /\ actPc = "start"
  /\ start.pc = "resolved"
  /\ actPc' = "health"
  /\ discoveryFile' = MCP_PORT
  \* stop(): close the transports, clear both maps, close the listener
  /\ transports' = <<>>
  /\ sessions' = <<>>
  /\ listener' = Unset
  /\ serverObj' = FALSE
  /\ start' = [start EXCEPT !.pc = "idle"]
  /\ UNCHANGED <<mcpPortSetting, notices, thisPort, commands>>
  /\ UNCHANGED <<nServers, nTransports, serverTools, toolRegistry, httpLog>>
  /\ UNCHANGED <<portVars, chatVars, toolVars>>
  /\ UNCHANGED <<life, ovl>>

\* checkLettaHealth, when healthy:
\* mcpPort = getCurrentMcpPort() || config.get('mcpPort') || 7428
HealthyConfigPort(currentServerPort, setting) ==
  IF currentServerPort # Unset THEN currentServerPort ELSE ConfiguredPort(setting)

\* Where control goes when reconnectLetta() returns: on in activate(), or back
\* to the state the operation started from.
AfterReconnect == IF life.op = "none" THEN "init" ELSE life.back

\* The operation that called reconnectLetta() is over.
EndOperation == IF life.op = "none" THEN life ELSE [life EXCEPT !.op = "idle"]

\* reconnectLetta() after checkLettaHealth(): unhealthy -> an error message and
\* return false; healthy -> writeMcpConfig(this.port) and start() again
ReconnectHealth(healthy) ==
  /\ actPc = "health"
  /\ IF healthy
       THEN /\ discoveryFile' = HealthyConfigPort(thisPort, mcpPortSetting)
            /\ actPc' = "restart"
            /\ UNCHANGED <<notices, life>>
            /\ LET file == HealthyConfigPort(thisPort, mcpPortSetting) IN
               /\ start' = [IdleStart EXCEPT !.pc = "primary",
                                             !.configuredPort = ConfiguredPort(mcpPortSetting),
                                             !.portAtCall = thisPort, !.fileAtCall = file]
               /\ CallFindOpenPort(ConfiguredPort(mcpPortSetting), PrimaryRetries)
       ELSE /\ notices' = notices \cup {NotResponding}
            /\ actPc' = AfterReconnect
            /\ life' = EndOperation
            /\ UNCHANGED <<discoveryFile, start, portVars>>
  /\ UNCHANGED <<mcpPortSetting, serverObj, listener, thisPort, commands>>
  /\ UNCHANGED <<mcpVars, chatVars, toolVars>>
  /\ UNCHANGED ovl

\* reconnectLetta() after its start() settled: it catches a rejection
ReconnectStarted ==
  /\ actPc = "restart"
  /\ start.pc \in {"resolved", "rejected"}
  /\ actPc' = AfterReconnect
  /\ life' = EndOperation
  /\ notices' = notices \cup {IF start.pc = "resolved" THEN Reconnected ELSE ReconnectFailed}
  /\ UNCHANGED <<mcpPortSetting, discoveryFile, serverObj, listener, thisPort, start, commands>>
  /\ UNCHANGED <<mcpVars, portVars, chatVars, toolVars>>
  /\ UNCHANGED ovl

\* activate(): await lettaService.initialize(context), then register the
\* commands; a rejection goes to the catch block
ActivateInitialize(initialized) ==
  /\ actPc = "init"
  /\ IF initialized
       THEN /\ commands' = commands \cup FeatureCommands \cup {ReconnectCommand}
            /\ actPc' = "done"
            /\ UNCHANGED notices
       ELSE /\ commands' = commands \cup {ReconnectCommand}
            /\ notices' = notices \cup {ActivationFailed}
            /\ actPc' = "failed"
  /\ UNCHANGED <<mcpPortSetting, discoveryFile, serverObj, listener, thisPort, start>>
  /\ UNCHANGED <<mcpVars, portVars, chatVars, toolVars>>
  /\ UNCHANGED <<life, ovl>>

\* activate(): catch (error) after start() rejected: the error message, and
\* letta-ai.reconnect is registered "anyway"
ActivateCatchStart ==
  /\ actPc = "start"
  /\ start.pc = "rejected"
  /\ commands' = commands \cup {ReconnectCommand}
  /\ notices' = notices \cup {ActivationFailed}
  /\ actPc' = "failed"
  /\ UNCHANGED <<mcpPortSetting, discoveryFile, serverObj, listener, thisPort, start>>
  /\ UNCHANGED <<mcpVars, portVars, chatVars, toolVars>>
  /\ UNCHANGED <<life, ovl>>

\* Overlapping stop() and start() calls on the one McpExpressServer.
MaxTasks    == 2           \* stop() / restart calls in flight in one run
TaskIds     == 1 .. MaxTasks
NoListener  == 0           \* this.server === null
OvlPorts    == {MCP_PORT, MCP_PORT + 1}

\* An http.Server made by app.listen: the port it was given and whether it is
\* "listening", "failed" (the bind was refused) or "closed".
Listener(p, state) == [port |-> p, state |-> state]

UnusedTask ==
  [pc |-> "unused",
   kind |-> None,            \* "stop": stop() alone; "restart": await stop(), then start()
   finalPort |-> Unset]

\* A server that was never started, with no call in flight.
IdleOvl ==
  [server |-> NoListener,    \* this.server: the number of an http.Server, or null
   listeners |-> <<>>,       \* the http.Server objects app.listen has made
   tasks |-> [t \in TaskIds |-> UnusedTask]]

\* The http.Server objects that hold a port.
Listening == {i \in DOMAIN ovl.listeners : ovl.listeners[i].state = "listening"}

\* The ports held by the extension's own listeners.
HeldPorts == {ovl.listeners[i].port : i \in Listening}

\* stop() up to its await: the maps are cleared and, if (this.server),
\* this.server.close(callback) is called: the server stops listening, the
\* callback comes later; else resolve()
StopCalled(t, kind) ==
  /\ ovl.tasks[t].pc = "unused"
  /\ \A u \in TaskIds : u < t => ovl.tasks[u].pc # "unused"
  /\ ovl' = [ovl EXCEPT
       !.tasks[t] = [@ EXCEPT !.kind = kind,
                              !.pc = IF ovl.server # NoListener THEN "closing" ELSE "stopped"],
       !.listeners = [i \in DOMAIN ovl.listeners |->
                        IF i = ovl.server /\ ovl.listeners[i].state = "listening"
                          THEN Listener(ovl.listeners[i].port, "closed")
                          ELSE ovl.listeners[i]]]
  /\ UNCHANGED <<mcpPortSetting, discoveryFile, notices, commands, serverObj, listener, thisPort,
                 start, actPc, life>>
  /\ UNCHANGED <<mcpVars, portVars, chatVars, toolVars>>

\* the close callback: this.server = null; resolve()
StopClosed(t) ==
  /\ ovl.tasks[t].pc = "closing"
  /\ ovl' = [ovl EXCEPT !.server = NoListener, !.tasks[t] = [@ EXCEPT !.pc = "stopped"]]
  /\ UNCHANGED <<mcpPortSetting, discoveryFile, notices, commands, serverObj, listener, thisPort,
                 start, actPc, life>>
  /\ UNCHANGED <<mcpVars, portVars, chatVars, toolVars>>

\* after await stop(): a stop() alone is over; a restart calls start(), whose
\* findOpenPort returns the first port of the range that nothing holds
StartProbed(t) ==
  /\ ovl.tasks[t].pc = "stopped"
  /\ LET free == OvlPorts \ HeldPorts IN
     ovl' = [ovl EXCEPT !.tasks[t] =
       IF ovl.tasks[t].kind = "stop" \/ free = {}
         THEN [@ EXCEPT !.pc = "done"]
         ELSE [@ EXCEPT !.pc = "listen",
                        !.finalPort = CHOOSE p \in free : \A q \in free : p <= q]]
  /\ UNCHANGED <<mcpPortSetting, discoveryFile, notices, commands, serverObj, listener, thisPort,
                 start, actPc, life>>
  /\ UNCHANGED <<mcpVars, portVars, chatVars, toolVars>>

\* this.server = this.app.listen(finalPort, '0.0.0.0', callback): a new
\* http.Server is assigned; it binds the port unless something holds it
StartListened(t) ==
  /\ ovl.tasks[t].pc = "listen"
  /\ LET p == ovl.tasks[t].finalPort IN
     ovl' = [ovl EXCEPT
       !.listeners = Append(@, Listener(p, IF p \in HeldPorts THEN "failed" ELSE "listening")),
       !.server = Len(ovl.listeners) + 1,
       !.tasks[t] = [@ EXCEPT !.pc = "done"]]
  /\ UNCHANGED <<mcpPortSetting, discoveryFile, notices, commands, serverObj, listener, thisPort,
                 start, actPc, life>>
  /\ UNCHANGED <<mcpVars, portVars, chatVars, toolVars>>

\* The server after activate() started it, or never started.
OvlInit ==
  /\ mcpPortSetting = Unset
  /\ discoveryFile = Unset
  /\ notices = {}
  /\ commands = {}
  /\ serverObj = FALSE
  /\ listener = Unset
  /\ thisPort = MCP_PORT
  /\ start = IdleStart
  /\ actPc = "idle"
  /\ life = IdleLife
  /\ \E started \in BOOLEAN :
       ovl = IF started
               THEN [IdleOvl EXCEPT !.server = 1,
                                    !.listeners = <<Listener(MCP_PORT, "listening")>>]
               ELSE IdleOvl

OvlNext ==
  \/ \E t \in TaskIds, kind \in {"stop", "restart"} : StopCalled(t, kind)
  \/ \E t \in TaskIds : StopClosed(t)
  \/ \E t \in TaskIds : StartProbed(t)
  \/ \E t \in TaskIds : StartListened(t)

StartInit ==
  /\ mcpPortSetting \in InitialSettings
  /\ discoveryFile = Unset
  /\ notices = {}
  /\ commands = {}
  /\ serverObj = FALSE
  /\ listener = Unset
  /\ thisPort = MCP_PORT
  /\ start = IdleStart
  /\ actPc = "idle"
  /\ life = IdleLife
  /\ ovl = IdleOvl

StartIdle ==
  /\ mcpPortSetting = Unset
  /\ discoveryFile = Unset
  /\ notices = {}
  /\ commands = {}
  /\ serverObj = FALSE
  /\ listener = Unset
  /\ thisPort = MCP_PORT
  /\ start = IdleStart
  /\ actPc = "idle"
  /\ life = IdleLife
  /\ ovl = IdleOvl

\* The ports as start() finds them: some first ports of the primary range
\* and of the alternate range are taken.
StartPortInit ==
  /\ \E k1 \in 0 .. (PrimaryRetries + 1), k2 \in 0 .. (AlternateRetries + 1),
        kind1 \in {"free", "denied"}, kind2 \in {"free", "denied"} :
       portStatus = [p \in StartPorts |->
          IF p < ConfiguredPort(mcpPortSetting) + AlternateOffset
            THEN Occupied(ConfiguredPort(mcpPortSetting), k1, kind1, p)
            ELSE Occupied(ConfiguredPort(mcpPortSetting) + AlternateOffset, k2, kind2, p)]
  /\ fpPort = MCP_PORT
  /\ fpMaxRetries = 0
  /\ fpRetries = 0
  /\ fpTrying = MCP_PORT
  /\ fpState = "idle"
  /\ fpResult = Unsettled

\* stop() that leaves the http server as it is
Stop_LeavesServer ==
  /\ transports' = <<>>
  /\ sessions' = <<>>
  /\ UNCHANGED <<listener, serverObj>>

\* stop(): close the transports, clear both maps, close the listener
Stop ==
  /\ transports' = <<>>
  /\ sessions' = <<>>
  /\ listener' = Unset
  /\ serverObj' = FALSE

\* What a stop() call finds: a listening server to close, or no server at all.
StopSeen(l) ==
  IF listener # Unset THEN [l EXCEPT !.closed = TRUE]
  ELSE IF ~serverObj THEN [l EXCEPT !.noop = TRUE]
  ELSE l

\* activate() has returned, nothing else is running and the extension is live.
Quiet ==
  /\ actPc \in {"done", "failed"}
  /\ life.op \in {"none", "idle"}

RestartFailed == Notice("error", "Failed to restart MCP server with new port setting", Unset)

\* The user runs letta-ai.reconnect: reconnectLetta() up to its health check
ReconnectInvoked ==
  /\ Quiet
  /\ life.n < MaxOps
  /\ ReconnectCommand \in commands
  /\ Stop
  /\ start' = [start EXCEPT !.pc = "idle"]
  /\ actPc' = "health"
  /\ life' = [life EXCEPT !.op = "reconnect", !.back = actPc, !.n = @ + 1]
  /\ UNCHANGED <<mcpPortSetting, discoveryFile, notices, commands, thisPort>>
  /\ UNCHANGED <<nServers, nTransports, serverTools, toolRegistry, httpLog>>
  /\ UNCHANGED <<portVars, chatVars, toolVars>>
  /\ UNCHANGED ovl

\* The user sets lettaChat.mcpPort to v; the onDidChangeConfiguration handler
\* awaits stop() and calls start()
SettingChanged(v) ==
  /\ Quiet
  /\ life.n < MaxOps
  /\ v # mcpPortSetting
  /\ mcpPortSetting' = v
  /\ Stop
  /\ start' = [IdleStart EXCEPT !.pc = "primary", !.configuredPort = ConfiguredPort(v),
                                !.portAtCall = thisPort, !.fileAtCall = discoveryFile]
  /\ CallFindOpenPort(ConfiguredPort(v), PrimaryRetries)
  /\ actPc' = "restarting"
  /\ life' = [life EXCEPT !.op = "setting", !.back = actPc, !.n = @ + 1]
  /\ UNCHANGED <<discoveryFile, notices, commands, thisPort>>
  /\ UNCHANGED <<nServers, nTransports, serverTools, toolRegistry, httpLog>>
  /\ UNCHANGED <<chatVars, toolVars>>
  /\ UNCHANGED ovl

\* The handler after its start() settled: reconnectLetta() up to its health
\* check, or the catch with its error message
SettingRestarted ==
  /\ actPc = "restarting"
  /\ start.pc \in {"resolved", "rejected"}
  /\ IF start.pc = "resolved"
       THEN /\ Stop
            /\ start' = [start EXCEPT !.pc = "idle"]
            /\ actPc' = "health"
            /\ UNCHANGED <<notices, life>>
       ELSE /\ notices' = notices \cup {RestartFailed}
            /\ actPc' = life.back
            /\ life' = [life EXCEPT !.op = "idle"]
            /\ UNCHANGED <<transports, sessions, listener, serverObj, start>>
  /\ UNCHANGED <<mcpPortSetting, discoveryFile, commands, thisPort>>
  /\ UNCHANGED <<nServers, nTransports, serverTools, toolRegistry, httpLog>>
  /\ UNCHANGED <<portVars, chatVars, toolVars>>
  /\ UNCHANGED ovl

\* An untitled document is saved: the onWillSaveTextDocument handler awaits stop()
UntitledSaved ==
  /\ Quiet
  /\ life.n < MaxOps
  /\ Stop
  /\ life' = [StopSeen(life) EXCEPT !.op = "idle", !.n = @ + 1]
  /\ UNCHANGED <<mcpPortSetting, discoveryFile, notices, commands, thisPort, start, actPc>>
  /\ UNCHANGED <<nServers, nTransports, serverTools, toolRegistry, httpLog>>
  /\ UNCHANGED <<portVars, chatVars, toolVars>>
  /\ UNCHANGED ovl

\* deactivate(): await mcpServer.stop()
Deactivate ==
  /\ Quiet
  /\ Stop
  /\ life' = [StopSeen(life) EXCEPT !.op = "deactivated"]
  /\ UNCHANGED <<mcpPortSetting, discoveryFile, notices, commands, thisPort, start, actPc>>
  /\ UNCHANGED <<nServers, nTransports, serverTools, toolRegistry, httpLog>>
  /\ UNCHANGED <<portVars, chatVars, toolVars>>
  /\ UNCHANGED ovl

\* The ports as the extension's lifetime finds them: at most the first port
\* of the primary range is taken, and the next one may refuse the bind.
LifePortInit ==
  /\ \E k1 \in {0, 1}, kind1 \in {"free", "denied"} :
       portStatus = [p \in StartPorts |->
          IF p < ConfiguredPort(mcpPortSetting) + AlternateOffset
            THEN Occupied(ConfiguredPort(mcpPortSetting), k1, kind1, p)
            ELSE "free"]
  /\ fpPort = MCP_PORT
  /\ fpMaxRetries = 0
  /\ fpRetries = 0
  /\ fpTrying = MCP_PORT
  /\ fpState = "idle"
  /\ fpResult = Unsettled

StartNext ==
  \/ Activate
  \/ ProbeListening
  \/ ProbeInUse
  \/ ProbeOtherError
  \/ StartPrimaryResolved
  \/ \E selection \in {"Change MCP Port", "Details", None} : StartPrimaryRejected(selection)
  \/ StartAlternateDone
  \/ \E bound \in BOOLEAN : StartListen(bound)
  \/ ActivateWriteConfig
  \/ \E healthy \in BOOLEAN : ReconnectHealth(healthy)
  \/ ReconnectStarted
  \/ \E initialized \in BOOLEAN : ActivateInitialize(initialized)
  \/ ActivateCatchStart

\* activate(), then reconnects, port-setting changes and saves, then deactivate()
LifeNext ==
  \/ StartNext
  \/ ReconnectInvoked
  \/ \E v \in InitialSettings : SettingChanged(v)
  \/ SettingRestarted
  \/ UntitledSaved
  \/ Deactivate

-----------------------------------------------------------------------------
(* Specifications                                                            *)

\* The /mcp routes of McpExpressServer.
Init == McpInit /\ PortIdle /\ ChatInit /\ ToolsIdle /\ StartIdle
Next == McpNext
Spec == Init /\ [][Next]_vars

\* One call of findOpenPort.
InitPort == McpInit /\ PortInit /\ ChatInit /\ ToolsIdle /\ StartIdle
SpecPort == InitPort /\ [][PortNext]_vars

\* One call of findOpenPort in which every probe's bind attempt ends in its
\* 'listening' or its 'error' event.
SpecPortFair == InitPort /\ [][PortNext]_vars /\ WF_vars(PortNext)

\* The chat flow's tool calls and approvals.
InitChat == McpInit /\ PortIdle /\ ChatInit /\ ToolsIdle /\ StartIdle
SpecChat == InitChat /\ [][ChatNext]_vars

\* One agent stream dispatching tool calls of any name.
InitDispatch == ChatInit /\ McpInit /\ PortIdle /\ ToolsIdle /\ StartIdle
SpecDispatch == InitDispatch /\ [][DispatchNext]_vars

\* Invocations of the registry's handlers.
InitTools == McpInit /\ PortIdle /\ ChatInit /\ ToolsInit /\ StartIdle
SpecTools == InitTools /\ [][ToolsNext]_vars

\* The tool handlers with valid inputs; the extension host runs every
\* continuation that is ready (a stat, a write, an exec that has completed),
\* while the user may leave a dialog unanswered for ever.
GateNext ==
  \/ \E h \in InvIds, tool \in ToolNames, command \in {"ls", None} :
        Invoke(h, tool, TRUE, <<"a.txt">>, command)
  \/ \E h \in InvIds : Stat(h)
  \/ \E h \in InvIds, choice \in Choices : AnswerDialog(h, choice)
  \/ \E h \in InvIds : Mutate(h)
  \/ \E h \in InvIds : Exec(h)
SpecGate ==
  /\ InitTools
  /\ [][GateNext]_vars
  /\ \A h \in InvIds : WF_vars(Stat(h) \/ Mutate(h) \/ Exec(h))

\* One attachToolsToAgent call on a restored tools cache.
InitAttach == McpInit /\ PortIdle /\ ChatInit /\ AttachInit /\ StartIdle
SpecAttach == InitAttach /\ [][AttachNext]_vars

\* The terminal tools alone.
InitTerm == McpInit /\ PortIdle /\ ChatInit /\ TermInit /\ StartIdle
SpecTerm == InitTerm /\ [][TermNext]_vars

\* getAgentForWorkspace alone.
InitLetta == McpInit /\ PortIdle /\ ChatInit /\ LettaInit /\ StartIdle
SpecLetta == InitLetta /\ [][LettaNext]_vars

\* activate(): start() with its fallback, reconnectLetta(), the commands.
InitStart == McpInit /\ StartInit /\ StartPortInit /\ ChatInit /\ ToolsIdle
SpecStart == InitStart /\ [][StartNext]_vars

\* The extension from activate() to deactivate().
InitLife == McpInit /\ StartInit /\ LifePortInit /\ ChatInit /\ ToolsIdle
SpecLife == InitLife /\ [][LifeNext]_vars

\* stop() and start() calls that overlap.
InitOvl == McpInit /\ OvlInit /\ PortIdle /\ ChatInit /\ ToolsIdle
SpecOvl == InitOvl /\ [][OvlNext]_vars

-----------------------------------------------------------------------------
(* The session registry and the /mcp routes (under Spec)                     *)

Answered == 1 .. Len(httpLog)

\* POST /mcp with no mcp-session-id header and an initialize body
IsInitialization(r) == r.verb = "POST" /\ r.hdr = None /\ r.body = "initialize"

\* No DELETE for session id sid was answered with success between requests i and j.
OpenBetween(sid, i, j) ==
  \A k \in Answered :
    i < k /\ k < j => ~(httpLog[k].verb = "DELETE" /\ httpLog[k].hdr = sid /\ httpLog[k].status = 200)

\* C1: every initialization request is stored in the transports map under a
\* freshly generated id, one that was the id of no live session when the
\* request arrived, and the id stays registered until that session is closed.
C1_InitializationStoredUnderFreshId ==
  \A i \in Answered :
    IsInitialization(httpLog[i]) =>
      /\ httpLog[i].sid \in SessionIds
      /\ httpLog[i].sid \notin httpLog[i].before
      /\ httpLog[i].sid \in httpLog[i].after
      /\ OpenBetween(httpLog[i].sid, i, Len(httpLog) + 1) => httpLog[i].sid \in DOMAIN transports

\* C2: an initialization POST is answered with a 200-class response carrying a
\* new session id, and a later tools/call POST bearing that id (the session
\* not closed in between) is answered with success.
C2_InitializeThenCallSucceeds ==
  \A i \in Answered :
    IsInitialization(httpLog[i]) =>
      /\ httpLog[i].status = 200
      /\ httpLog[i].sid \in SessionIds
      /\ \A j \in Answered :
           ( /\ i < j
             /\ httpLog[j].verb = "POST"
             /\ httpLog[j].hdr = httpLog[i].sid
             /\ httpLog[j].body = "tools/call"
             /\ OpenBetween(httpLog[i].sid, i, j) ) => httpLog[j].status = 200

\* A POST whose header is absent or names no registered session and whose body
\* is not an initialization request.
IsStrayPost(r) ==
  r.verb = "POST" /\ (r.hdr = None \/ r.hdr \notin r.before) /\ r.body # "initialize"

\* C3: a POST without a registered session id and without an initialization
\* body is answered 400 with JSON-RPC error code -32000, and the transports
\* and sessions maps are left as they were.
C3_StrayPostRejectedRegistryUntouched ==
  \A i \in Answered :
    IsStrayPost(httpLog[i]) =>
      /\ httpLog[i].status = 400
      /\ httpLog[i].code = 0 - 32000
      /\ ~httpLog[i].touched

\* Stray POSTs of both kinds (no header; an unregistered id) have been answered.
C3_Witness ==
  /\ \E i \in Answered : IsStrayPost(httpLog[i]) /\ httpLog[i].hdr = None
  /\ \E i \in Answered : IsStrayPost(httpLog[i]) /\ httpLog[i].hdr \in SessionIds

LiveInitializations ==
  {i \in Answered : IsInitialization(httpLog[i])
                      /\ OpenBetween(httpLog[i].sid, i, Len(httpLog) + 1)}

\* C12: an internal error raised while a POST, GET or DELETE on /mcp is
\* handled is caught in the route handler and answered with the structured
\* error response (500, JSON-RPC code -32603); no handler's promise rejects.
C12_InternalErrorCaughtInEveryRoute ==
  \A i \in Answered :
    httpLog[i].fault =>
      /\ ~httpLog[i].unhandled
      /\ httpLog[i].status = 500
      /\ httpLog[i].code = 0 - 32603

C14_ActiveSessionResolvesToItsServer ==
  /\ \A sid \in DOMAIN transports :
       sid \in DOMAIN sessions /\ sessions[sid] = transports[sid]
  /\ \A i \in LiveInitializations :
       /\ httpLog[i].sid \in DOMAIN transports
       /\ httpLog[i].sid \in DOMAIN sessions

\* C15: a tool registered with registerTool is in the registry and on the
\* McpServer of every Active session; so once a client has initialized a
\* session and not closed it, every registered name is on that session's
\* server.
C15_RegisteredToolOnEveryActiveSession ==
  /\ \A sid \in DOMAIN transports : Range(toolRegistry) \subseteq serverTools[transports[sid]]
  /\ \A i \in LiveInitializations :
       Len(toolRegistry) > Len(BuiltinTools) =>
         /\ httpLog[i].sid \in DOMAIN transports
         /\ Range(toolRegistry) \subseteq serverTools[transports[httpLog[i].sid]]

\* A request whose mcp-session-id header names no registered session.
IsStale(r) == r.hdr \in SessionIds /\ r.hdr \notin r.before /\ ~r.fault

\* C20: a POST, GET or DELETE whose header names a session that is not
\* registered is answered 400, constructs no transport and no server, and
\* leaves the transports and sessions maps as they were.
C20_StaleIdRejectedNothingCreated ==
  \A i \in Answered :
    IsStale(httpLog[i]) =>
      /\ httpLog[i].status = 400
      /\ ~httpLog[i].touched
      /\ httpLog[i].created = 0

-----------------------------------------------------------------------------
(* The port allocator (under SpecPort)                                       *)

PrimaryRange == fpPort .. (fpPort + fpMaxRetries)
NotInUse     == {p \in PrimaryRange : portStatus[p] # "inuse"}
Lowest(S)    == CHOOSE p \in S : \A q \in S : p <= q

\* C6 as stated: findOpenPort returns the lowest port of P..P+n that is not
\* in use, and rejects exactly when every port of P..P+n is in use.
C6_ReturnsLowestPortNotInUse ==
  fpState # "probing" =>
    IF NotInUse = {}
      THEN fpState = "rejected"
      ELSE fpState = "resolved" /\ fpResult.port = Lowest(NotInUse)

\* C6 amended: findOpenPort probes only ports of P..P+n, in ascending order;
\* it returns the lowest port that is not in use when binding it succeeds,
\* rejects with the bind error when binding that port fails for another
\* reason than EADDRINUSE, and rejects when every port of P..P+n is in use;
\* a returned port is never outside P..P+n.
C6_ReturnsLowestBindablePort ==
  /\ fpTrying \in PrimaryRange
  /\ fpTrying = fpPort + fpRetries
  /\ fpState = "resolved" => fpResult.port \in PrimaryRange
  /\ fpState # "probing" =>
       IF NotInUse = {}
         THEN fpState = "rejected" /\ fpResult.error = "Could not find an open port"
         ELSE IF portStatus[Lowest(NotInUse)] = "free"
                THEN fpState = "resolved" /\ fpResult.port = Lowest(NotInUse)
                ELSE fpState = "rejected" /\ fpResult.error = "err"

\* Ports P..P+k are occupied, P+k+1 is free, and findOpenPort(P, k+1) has
\* returned P+k+1.
C6_Witness ==
  /\ fpMaxRetries >= 1
  /\ fpState = "resolved"
  /\ fpResult.port = fpPort + fpMaxRetries
  /\ \A p \in fpPort .. (fpResult.port - 1) : portStatus[p] = "inuse"

-----------------------------------------------------------------------------
(* The approval gate of the chat flow (under SpecChat)                       *)

\* C5: a tool call whose input fails the tool's schema never reaches the
\* handler: no approval is requested for it and the terminal executor is not
\* called.
C5_InvalidInputNeverReachesHandler ==
  \A h \in CallIds : ~calls[h].valid => ~calls[h].proposed /\ calls[h].execs = 0

\* C7: the terminal executor is called for a run_command tool call only after
\* its approval resolved as approved, and then exactly once; a cancelled call
\* ends with the cancelled outcome and the terminal executor is never called
\* for it.
C7_ApprovalGatesTerminalExecutor ==
  \A h \in CallIds :
    /\ calls[h].execs <= 1
    /\ calls[h].execs = 1 => calls[h].resolution = "approved"
    /\ calls[h].state = "waiting" => calls[h].execs = 0 /\ calls[h].resolution = None
    /\ calls[h].state = "done" /\ calls[h].resolution = "approved" => calls[h].execs = 1
    /\ calls[h].resolution = "cancelled" => calls[h].execs = 0
    /\ calls[h].state = "done" /\ calls[h].resolution = "cancelled" =>
         calls[h].result = CancelledBeforeExecution

\* One call was approved and ran the terminal executor once; another was
\* cancelled and finished without it.
C7_Witness ==
  /\ \E h \in CallIds : calls[h].state = "done" /\ calls[h].resolution = "approved"
                          /\ calls[h].execs = 1
  /\ \E h \in CallIds : calls[h].state = "done" /\ calls[h].resolution = "cancelled"
                          /\ calls[h].execs = 0

\* C10: an approve or cancel signal for an id that was resolved before and is
\* no longer pending changes no state of the adapter.
C10_LateSignalIsNoOp ==
  [][\A id \in CommandIds :
       /\ AlreadyResolved(id)
       /\ HandleCommandApproval(id) \/ HandleCommandCancellation(id)
       => UNCHANGED chatVars]_vars

\* C16: cancelling the current stream resolves every approval still pending
\* for that stream as cancelled and removes its record from pendingCommands.
C16_StreamCancelResolvesPendingApprovals ==
  [][CancelCurrentStream =>
       \A h \in CallIds :
         calls[h].stream = currentStreamController /\ calls[h].state = "waiting" =>
           /\ calls'[h].resolution = "cancelled"
           /\ pendingCommands'[calls[h].id] # h]_vars

-----------------------------------------------------------------------------
(* The registry's handlers (under SpecTools)                                 *)

\* C8: the run_command handler asks for approval with the command text before
\* anything else; executeTerminalTool is called only after the answer
\* 'Yes, run it'; after any other answer the handler returns
\* 'Command execution cancelled by user.' as a normal result and neither
\* executeTerminalTool is called nor a process spawned.
C8_RunCommandNeedsApproval ==
  \A h \in InvIds :
    inv[h].tool = "run_command" =>
      /\ inv[h].dialog = (IF inv[h].valid THEN inv[h].command ELSE Undefined)
      /\ inv[h].pc = "exec" \/ inv[h].terminalToolCalls > 0 => inv[h].choice = "Yes, run it"
      /\ inv[h].pc = "done" /\ inv[h].choice # "Yes, run it" =>
           /\ inv[h].result = CommandCancelled
           /\ ~inv[h].isError
           /\ inv[h].terminalToolCalls = 0
           /\ inv[h].spawned = 0

\* One run_command was approved and executed, another was dismissed without
\* an answer and returned the cancellation text.
C8_Witness ==
  /\ \E h \in InvIds : inv[h].tool = "run_command" /\ inv[h].pc = "done"
                        /\ inv[h].choice = "Yes, run it" /\ inv[h].spawned = 1
  /\ \E h \in InvIds : inv[h].tool = "run_command" /\ inv[h].pc = "done"
                        /\ inv[h].choice = None /\ inv[h].result = CommandCancelled

AsksFirst(r) == r.tool \in {"update_file", "delete_file"} \/ (r.tool = "create_file" /\ r.statFound = "found")

\* C9: delete_file, update_file and a create_file that found the file existing
\* write or delete only after the answer 'Yes' to a dialog naming the path;
\* after any other answer they leave the file alone and return 'Operation
\* cancelled' as a normal result; a create_file that found no file writes
\* without a dialog.
C9_FileMutationNeedsConfirmation ==
  \A h \in InvIds :
    inv[h].tool \in FileTools =>
      /\ AsksFirst(inv[h]) /\ (inv[h].pc = "write" \/ inv[h].mutated) =>
           inv[h].dialog = FilePath /\ inv[h].choice = "Yes"
      /\ inv[h].pc = "done" /\ inv[h].dialog # None /\ inv[h].choice # "Yes" =>
           inv[h].result = OperationCancelled /\ ~inv[h].isError /\ ~inv[h].mutated
      /\ inv[h].tool = "create_file" /\ inv[h].statFound = "missing" =>
           /\ inv[h].dialog = None
           /\ inv[h].pc = "done" => inv[h].mutated /\ ~inv[h].isError

\* A create_file overwrote the existing file after 'Yes', and another file
\* tool was cancelled by dismissing its dialog.
C9_Witness ==
  /\ \E h \in InvIds : inv[h].tool = "create_file" /\ inv[h].statFound = "found"
                        /\ inv[h].choice = "Yes" /\ inv[h].mutated
  /\ \E h \in InvIds : inv[h].tool \in FileTools /\ inv[h].pc = "done"
                        /\ inv[h].dialog = FilePath /\ inv[h].choice = None

-----------------------------------------------------------------------------
(* start(), its fallback and activate() (under SpecStart)                    *)

\* start() has just resolved: its caller has not run yet.
StartJustResolved == start.pc = "resolved" /\ actPc \in {"start", "restart"}

\* start() has just rejected: its caller has not run yet.
StartJustRejected == start.pc = "rejected" /\ actPc \in {"start", "restart"}

PrimaryPorts   == start.configuredPort .. (start.configuredPort + 10)
AlternatePorts == (start.configuredPort + 1000) .. (start.configuredPort + 1005)

C19_StartFailureDisablesOnlyMcp ==
  actPc = "failed" /\ start.pc = "rejected" =>
    /\ [level |-> "error", msg |-> "Failed to initialize Letta AI extension",
        port |-> 0] \in notices
    /\ "letta-ai.reconnect" \in commands
    /\ {"letta-ai.openChat", "letta-ai.indexWorkspace", "letta-ai.clearProjectMemory",
        "letta-ai.clearPersonaMemory"} \subseteq commands

-----------------------------------------------------------------------------
(* C21: dispatch order of a tool call in the chat flow                      *)

-----------------------------------------------------------------------------
(* C22: path containment of the mutating file tools                         *)

\* The location a path names, resolved against the workspace root, is not the
\* root or below it.
ResolvesOutside(p) ==
  LET t == NormalizeFrom(<<>>, rootPath \o p) IN
  ~(Len(t) >= Len(rootPath) /\ SubSeq(t, 1, Len(rootPath)) = rootPath)

\* C22: create_file, update_file and delete_file, given a schema-valid input
\* whose path is absolute or resolves outside the workspace root, end with an
\* error without having checked for the file, shown a dialog or changed a file.
C22_PathOutsideWorkspaceRejectedFirst ==
  \A h \in InvIds :
    (/\ inv[h].pc # "unused"
     /\ inv[h].tool \in FileTools
     /\ inv[h].valid
     /\ (IsAbsolute(inv[h].path) \/ ResolvesOutside(inv[h].path)))
    => /\ inv[h].pc = "done"
       /\ inv[h].threw /\ inv[h].isError
       /\ inv[h].statFound = None
       /\ inv[h].dialog = None
       /\ ~inv[h].mutated

C22_Witness ==
  /\ \E h \in InvIds : /\ inv[h].tool = "delete_file"
                       /\ inv[h].path = <<"sub", "..", "..", "x">>
                       /\ inv[h].isError
  /\ \E h \in InvIds : /\ inv[h].tool = "create_file"
                       /\ inv[h].path = <<"..", "w", "a.txt">>
                       /\ inv[h].mutated

-----------------------------------------------------------------------------
(* C23, C25: the listener and the discovery file over the extension's life  *)

\* activate() went through start(), reconnectLetta() and the registration of
\* the commands, and deactivate() has not run.
ActivatedAndLive ==
  /\ actPc = "done"
  /\ life.op \in {"none", "idle"}

\* C23: from the completion of activate() to deactivate() the server is
\* listening, and after deactivate() it is not.
C23_ListeningFromActivateToDeactivate ==
  /\ ActivatedAndLive => listener # Unset
  /\ life.op = "deactivated" => listener = Unset

\* A start() call is between its first statement and its settlement.
StartInProgress == start.pc \in {"primary", "alternate", "listen"}

-----------------------------------------------------------------------------
(* C24: attachToolsToAgent and the tools cache                              *)

\* C24: when attachToolsToAgent has returned, a tool that was in the cache is
\* attached under its cached id and was neither created nor deleted, a tool
\* that was not in the cache was created, the cache holds the id of every
\* attached tool, and the cache has been saved.
C24_CachedToolIdsReused ==
  attach.pc = "done" =>
    /\ \A n \in AttachNames :
         /\ attach.cacheAtCall[n] # None
              => /\ attach.attached[n] = attach.cacheAtCall[n]
                 /\ n \notin attach.created
                 /\ n \notin attach.deleteCalls
         /\ attach.cacheAtCall[n] = None => n \in attach.created
         /\ attach.attached[n] # None => attach.toolsCache[n] = attach.attached[n]
    /\ attach.saved

-----------------------------------------------------------------------------
(* C26: termination of findOpenPort                                         *)

\* C26: a findOpenPort(P, n) call whose probes each end in 'listening' or
\* 'error' is eventually resolved or rejected; it makes at most n + 1 probes,
\* all of them on ports P .. P + n; and once settled its outcome never changes.
C26_FindOpenPortSettlesOnce ==
  /\ <>(fpState \in {"resolved", "rejected"})
  /\ [](fpRetries + 1 <= fpMaxRetries + 1 /\ fpTrying \in fpPort .. (fpPort + fpMaxRetries))
  /\ [][(fpState # "probing") => UNCHANGED <<fpState, fpResult>>]_vars

\* The call was rejected after its last allowed probe.
C26_Witness ==
  /\ fpState = "rejected"
  /\ fpMaxRetries = MaxRetriesBound
  /\ fpRetries = fpMaxRetries
  /\ fpTrying = fpPort + fpMaxRetries

-----------------------------------------------------------------------------
(* C27, C29, C30: the registry under initializations, closes and failures   *)

\* A DELETE that closed the session it names.
IsClose(r) == r.verb = "DELETE" /\ r.hdr \in r.before /\ r.status = 200

-----------------------------------------------------------------------------
(* C28: one pending approval per command id                                 *)

\* C28: a pending approval is never replaced by another call's record under
\* the same id, and a record leaves the table only when its own call is
\* resolved, by an approval or a cancellation.
C28_OnePendingApprovalPerId ==
  [][\A id \in CommandIds :
       pendingCommands[id] # NoCall
         => \/ pendingCommands'[id] = pendingCommands[id]
            \/ /\ pendingCommands'[id] = NoCall
               /\ calls'[pendingCommands[id]].resolution \in {"approved", "cancelled"}]_vars

-----------------------------------------------------------------------------
(* C31: names are unique within the tool registry                           *)

\* C31: the tool registry never holds two entries with one name, whatever
\* registerTool was called with.
C31_RegistryNamesUnique ==
  \A i, j \in DOMAIN toolRegistry : toolRegistry[i] = toolRegistry[j] => i = j

-----------------------------------------------------------------------------
(* C32: no race between probe and bind                                      *)

\* C32: whenever findOpenPort has returned a port to start(), the listen on
\* that port succeeds: start() is never rejected after it was handed a port.
C32_ReturnedPortAlwaysBinds ==
  ~(start.finalPort # Unset /\ start.pc = "rejected")

-----------------------------------------------------------------------------
(* C33, C35: the terminal tools (under SpecTerm)                            *)

\* C33: at most one output-capturing command runs at a time, and a
\* read_terminal_output that returns a captured output returns the output of
\* the capturing command executed last, never that of an earlier command
\* that finished after it.
C33_CapturingCommandsSerialized ==
  /\ Cardinality(Capturing) <= 1
  /\ \A i \in DOMAIN term.reads :
       term.reads[i].returned.of \in CmdIds
         => term.reads[i].returned.of = term.reads[i].latest

\* C35: a captured command that exits with a non-zero code reaches the
\* caller of the tool as a failure, not as a successful result.
C35_NonZeroExitReportedAsFailure ==
  \A k \in CmdIds :
    (term.cmds[k].pc = "done" /\ term.cmds[k].code # 0) => term.cmds[k].threw

-----------------------------------------------------------------------------
(* C37: create_file never overwrites without a confirmation                 *)

\* C37: a create_file call that wrote over a file that existed at the time
\* of the write had asked for, and was given, a confirmation.
C37_CreateFileNeverOverwritesUnconfirmed ==
  \A h \in InvIds :
    (inv[h].tool = "create_file" /\ inv[h].replaced) => Confirmed(inv[h].choice)

-----------------------------------------------------------------------------
(* C40: one agent per workspace (under SpecLetta)                           *)

\* C40: a call that finds a mapped agent that exists on the server returns
\* it and creates nothing, and the server never holds two agents for the
\* workspace.
C40_AtMostOneAgentPerWorkspace ==
  /\ Cardinality(letta.serverAgents) <= 1
  /\ \A c \in AgentCallIds :
       (letta.calls[c].pc = "done" /\ ~letta.calls[c].threw
          /\ letta.calls[c].existing \in letta.serverAgents)
       => /\ letta.calls[c].result = letta.calls[c].existing
          /\ letta.calls[c].agent = NoAgent

-----------------------------------------------------------------------------
(* C34: a pending approval holds no other request up (under SpecGate)       *)

\* An invocation whose next step needs no answer from the user.
Ready(h) == inv[h].pc \in {"stat", "write", "exec"}

-----------------------------------------------------------------------------
(* C36: one listener under overlapping start() and stop() (under SpecOvl)   *)

\* C36: however stop() and start() calls overlap, at most one http.Server
\* of the extension is listening, and this.server refers to it whenever one
\* is, so that the next stop() closes it.
C36_OneListenerHeldByServerField ==
  /\ Cardinality(Listening) <= 1
  /\ Listening # {} => ovl.server \in Listening

-----------------------------------------------------------------------------
(* C38: stop() (under SpecLife)                                             *)

\* The steps that are one stop() call and nothing else.
StopAlone == UntitledSaved \/ Deactivate

-----------------------------------------------------------------------------
(* C39: the abort controller of a running stream (under SpecChat)           *)

\* C39: while a chat stream is being processed its abort controller is the
\* one cancelCurrentStream() uses, also when createMessageStream calls
\* overlap: starting or finishing one stream never replaces or clears the
\* controller of another that is still running.
C39_RunningStreamKeepsItsController ==
  \A s \in StreamIds : streams[s] = "active" => currentStreamController = s

=============================================================================
